---- MODULE Spec2Model ----
(***************************************************************************)
(* A model of the API gateway's coordination primitives:                   *)
(*   - CircuitBreaker and HttpClientManager.request                        *)
(*     (src/services/http_client.py),                                      *)
(*   - the error envelope of GatewayController.process_request             *)
(*     (src/controllers/gateway.py),                                       *)
(*   - CacheManager (src/services/cache.py),                               *)
(*   - the gateway handlers with proxy_request and the route matcher       *)
(*     (src/routes.py, src/controllers/gateway.py),                        *)
(*   - authenticate_user and TokenManager (src/middleware/auth.py,         *)
(*     src/services/token.py) behind the application's router.             *)
(* Time is the integer number of seconds read from time.time().            *)
(***************************************************************************)
EXTENDS Integers, Sequences, FiniteSets, TLC

VARIABLES
    now,               \* the wall clock, time.time()
    circuit_breakers,  \* HttpClientManager.circuit_breakers: host -> breaker
    allowed,           \* harness: what the last should_allow_request() returned
    streak,            \* harness: record_failure() calls in a row since closed/0
    probes,            \* harness: failed probes in a row since the last success
    pc,                \* request(): where each call stands
    host,              \* request(): service_base
    retries,           \* request(): the retries argument
    attempt,           \* request(): the loop variable
    wake,              \* request(): end of asyncio.sleep, in half seconds
    sent,              \* request(): upstream requests this call has issued
    seen,              \* request(): what the attempts of this call received
    probe,             \* request(): how the attempt in flight was admitted
    result,            \* request(): the response returned or exception raised
    client,            \* process_request(): the HTTP response the client gets
    local_cache,       \* CacheManager.local_cache: key -> (data, expiry)
    redis,             \* the remote store: key -> (pickled data, expiry)
    max_local_cache_size,  \* CacheManager.max_local_cache_size
    cache_lock,        \* CacheManager.cache_lock: its holder, or "free"
    lock_waiters,      \* CacheManager.cache_lock: the tasks waiting, in order
    cpc,               \* cache call: where it stands
    cop,               \* cache call: get, set or invalidate
    ckey,              \* cache call: its key or pattern argument
    cval,              \* cache call: set's value, or what redis.get gave get
    cnow,              \* cache call: get's local variable now (line 34)
    ckeys,             \* cache call: the keys invalidate got from redis.keys
    cret,              \* cache call: what it returned
    invalidated,       \* observer: key invalidated and not set since
    setat,             \* observer: watched key -> time of a set's latest write
    covered,           \* observer: the get began after such an invalidation
    cerr,              \* observer: a remote-store call of this cache call failed
    greq,              \* gateway handler: the request it is serving
    gpc,               \* gateway handler: where it stands
    gbody,             \* proxy_request: response_data (line 98)
    gtime,             \* observer: when the upstream answered this request
    gresp,             \* gateway handler: the response the client gets
    answered,          \* observer: key -> body last answered and cached
    swept,             \* observer: key swept by an ended invalidation task
    rconfig,           \* the routes of the configuration file, as written
    rreq,              \* process_request: full_path and query of the request
    rres,              \* process_request: the route found and what follows
    token_cache,       \* TokenManager.cache: token -> (payload, expiry)
    areq,              \* the HTTP request the application is dispatching
    aresp,             \* what the application did with it
    kreq,              \* two GET requests: the (path, query) of each
    kkeys              \* proxy_request: the cache_key of each (line 72)

breakerVars == <<circuit_breakers, allowed, streak, probes>>
harnessVars == <<allowed, streak, probes>>
taskVars == <<pc, host, retries, attempt, wake, sent, seen, probe, result, client>>
cacheVars == <<local_cache, redis, max_local_cache_size, cache_lock,
               lock_waiters, cpc, cop, ckey, cval, cnow, ckeys, cret,
               invalidated, setat, covered, cerr>>
gatewayVars == <<greq, gpc, gbody, gtime, gresp, answered, swept>>
routerVars == <<rconfig, rreq, rres>>
authVars == <<token_cache, areq, aresp>>
keyVars == <<kreq, kkeys>>
frontVars == <<routerVars, authVars, keyVars>>
vars == <<now, circuit_breakers, allowed, streak, probes, pc, host, retries, attempt,
          wake, sent, seen, probe, result, client, local_cache, redis,
          max_local_cache_size, cache_lock, lock_waiters, cpc, cop, ckey,
          cval, cnow, ckeys, cret, invalidated, setat, covered, cerr, greq, gpc,
          gbody, gtime, gresp, answered, swept, rconfig, rreq, rres,
          token_cache, areq, aresp, kreq, kkeys>>

----------------------------------------------------------------------------
(* Bounds of the model *)

MaxNowBreaker == 480
MaxFailures == 8
MaxRetryAttempt == 5
MaxNowClient == 50
MaxNowCache == 20
MaxNowGateway == 40
MaxRoutes == 2
MaxNowAuth == 330
MaxNowPrune == 10
MaxNowLife == 63
MaxKeyPath == 2
MaxKeyQuery == 1
MaxNowAdmit == 780

(* Constants of the program *)

FailureThreshold == 3
MaxRecoveryTime == 300
DefaultResetTimeout == 30
DefaultRetries == 3
CacheTTL == 60
LocalTTL == 10
DefaultMaxLocalCacheSize == 1000
\* backoff_factor = 0.5 s, in half seconds
BackoffHalfSeconds == 1
\* token.py, line 27 and line 31
DefaultTokenLife == 300
TokenCacheCap == 100

Hosts == {"u"}
TimeSteps == {10, 30}

Min(a, b) == IF a <= b THEN a ELSE b

----------------------------------------------------------------------------
(* CircuitBreaker *)

CircuitBreaker(reset_timeout) ==
    [status |-> "closed", failures |-> 0, last_failure |-> 0,
     recovery_time |-> reset_timeout, retry_attempt |-> 0,
     reset_timeout |-> reset_timeout]

\* record_success that leaves retry_attempt and the window as they are.
record_success_keep_backoff(cb) ==
    [cb EXCEPT !.status = "closed", !.failures = 0]

record_success(cb) ==
    [cb EXCEPT !.status = "closed", !.failures = 0, !.retry_attempt = 0,
               !.recovery_time = cb.reset_timeout]

\* record_failure with the threshold test written > instead of >=.
record_failure_late(cb, t) ==
    LET f == cb.failures + 1 IN
    IF f > FailureThreshold
    THEN [cb EXCEPT !.failures = f, !.status = "open", !.last_failure = t,
                    !.recovery_time =
                        IF cb.retry_attempt > 0
                        THEN Min(cb.reset_timeout * (2 ^ cb.retry_attempt),
                                 MaxRecoveryTime)
                        ELSE @]
    ELSE [cb EXCEPT !.failures = f]

\* record_failure doubling the window once less: 2 ** (retry_attempt - 1).
record_failure_one_less(cb, t) ==
    LET f == cb.failures + 1 IN
    IF f >= FailureThreshold
    THEN [cb EXCEPT !.failures = f, !.status = "open", !.last_failure = t,
                    !.recovery_time =
                        IF cb.retry_attempt > 0
                        THEN Min(cb.reset_timeout
                                    * (2 ^ (cb.retry_attempt - 1)),
                                 MaxRecoveryTime)
                        ELSE @]
    ELSE [cb EXCEPT !.failures = f]

\* record_failure with the min(..., 300) of the backoff left out.
record_failure_uncapped(cb, t) ==
    LET f == cb.failures + 1 IN
    IF f >= FailureThreshold
    THEN [cb EXCEPT !.failures = f, !.status = "open", !.last_failure = t,
                    !.recovery_time =
                        IF cb.retry_attempt > 0
                        THEN cb.reset_timeout * (2 ^ cb.retry_attempt)
                        ELSE @]
    ELSE [cb EXCEPT !.failures = f]

record_failure(cb, t) ==
    LET f == cb.failures + 1 IN
    IF f >= FailureThreshold
    THEN [cb EXCEPT !.failures = f, !.status = "open", !.last_failure = t,
                    !.recovery_time =
                        IF cb.retry_attempt > 0
                        THEN Min(cb.reset_timeout * (2 ^ cb.retry_attempt),
                                 MaxRecoveryTime)
                        ELSE @]
    ELSE [cb EXCEPT !.failures = f]

\* should_allow_request without the branch of lines 43-48: an open breaker
\* denies whatever the time.
should_allow_request_never(cb, t) ==
    IF cb.status = "open"
    THEN [cb |-> cb, ret |-> FALSE]
    ELSE [cb |-> cb, ret |-> TRUE]

\* should_allow_request with the window test written > instead of >=.
should_allow_request_strict(cb, t) ==
    IF cb.status = "open"
    THEN IF t - cb.last_failure > cb.recovery_time
         THEN [cb |-> [cb EXCEPT !.status = "half-open",
                                 !.retry_attempt = @ + 1],
               ret |-> TRUE]
         ELSE [cb |-> cb, ret |-> FALSE]
    ELSE [cb |-> cb, ret |-> TRUE]

\* The breaker after the call, and the value the call returns.
should_allow_request(cb, t) ==
    IF cb.status = "open"
    THEN IF t - cb.last_failure >= cb.recovery_time
         THEN [cb |-> [cb EXCEPT !.status = "half-open",
                                 !.retry_attempt = @ + 1],
               ret |-> TRUE]
         ELSE [cb |-> cb, ret |-> FALSE]
    ELSE [cb |-> cb, ret |-> TRUE]

\* HttpClientManager.get_circuit_breaker: the map after the call.
get_circuit_breaker(cbs, h) ==
    IF h \in DOMAIN cbs THEN cbs
    ELSE [x \in DOMAIN cbs \cup {h} |->
            IF x = h THEN CircuitBreaker(DefaultResetTimeout) ELSE cbs[x]]

----------------------------------------------------------------------------
(* CacheManager.  Strings that are searched are sequences of characters.   *)

\* "cache:/u/1" and "cache:/i/1": f"cache:{path}{query}" of two paths.
Key1 == <<"c", "a", "c", "h", "e", ":", "/", "u", "/", "1">>
Key2 == <<"c", "a", "c", "h", "e", ":", "/", "i", "/", "1">>
Keys == {Key1, Key2}
Patterns == {<<"u">>, <<"c">>}
Values == {"v1"}
CTasks == {"c1", "c2"}

None == [some |-> FALSE, data |-> "none"]
Some(d) == [some |-> TRUE, data |-> d]
Raised == [some |-> FALSE, data |-> "raised"]

\* pickle.dumps and pickle.loads
dumps(v) == <<"pickle", v>>
loads(b) == b[2]

\* Python's "p in s" on strings, also the match of the glob *p*.
IsSubstring(p, s) ==
    \E i \in 1..(Len(s) - Len(p) + 1) : SubSeq(s, i, i + Len(p) - 1) = p

Restrict(f, S) == [x \in S |-> f[x]]
Put(f, k, e) == [x \in DOMAIN f \cup {k} |-> IF x = k THEN e ELSE f[x]]

\* _prune_local_cache with the sort of line 27 reversed: the entries with
\* the latest expiry are evicted.
prune_local_cache_newest(lc, t, maxsize) ==
    LET live == Restrict(lc, {k \in DOMAIN lc : lc[k].expiry > t})
        n == Cardinality(DOMAIN live) IN
    IF n > maxsize
    THEN {Restrict(live, DOMAIN live \ E) :
            E \in {X \in SUBSET DOMAIN live :
                     /\ Cardinality(X) = n - maxsize
                     /\ \A e \in X : \A k \in DOMAIN live \ X :
                           live[e].expiry >= live[k].expiry}}
    ELSE {live}

\* _prune_local_cache at time t: the local caches it can leave (entries of
\* equal expiry are evicted in the dict's order, which is not modelled).
prune_local_cache(lc, t, maxsize) ==
    LET live == Restrict(lc, {k \in DOMAIN lc : lc[k].expiry > t})
        n == Cardinality(DOMAIN live) IN
    IF n > maxsize
    THEN {Restrict(live, DOMAIN live \ E) :
            E \in {X \in SUBSET DOMAIN live :
                     /\ Cardinality(X) = n - maxsize
                     /\ \A e \in X : \A k \in DOMAIN live \ X :
                           live[e].expiry <= live[k].expiry}}
    ELSE {live}

\* What the store holds at time t: keys whose TTL has not run out.
RedisLive(t) == {k \in DOMAIN redis : redis[k].expiry > t}

InitCacheVars ==
    /\ local_cache = <<>>
    /\ redis = <<>>
    /\ max_local_cache_size = DefaultMaxLocalCacheSize
    /\ cache_lock = "free"
    /\ lock_waiters = <<>>
    /\ cpc = [t \in CTasks |-> "idle"]
    /\ cop = [t \in CTasks |-> "none"]
    /\ ckey = [t \in CTasks |-> <<>>]
    /\ cval = [t \in CTasks |-> None]
    /\ cnow = [t \in CTasks |-> 0]
    /\ ckeys = [t \in CTasks |-> {}]
    /\ cret = [t \in CTasks |-> None]
    /\ invalidated = [k \in Keys |-> FALSE]
    /\ setat = <<>>
    /\ covered = [t \in CTasks |-> FALSE]
    /\ cerr = [t \in CTasks |-> FALSE]

----------------------------------------------------------------------------
(* GatewayController: strings, routes, requests and responses.             *)
(* A string is a sequence of tokens: single characters, and the markers    *)
(* "Path=" and "http://" as one token each.                                *)

\* str.startswith
StartsWith(s, p) == Len(p) <= Len(s) /\ SubSeq(s, 1, Len(p)) = p

RECURSIVE LStrip(_, _)
LStrip(s, cs) ==
    IF s # <<>> /\ Head(s) \in cs THEN LStrip(Tail(s), cs) ELSE s

RECURSIVE RStrip(_, _)
RStrip(s, cs) ==
    IF s # <<>> /\ s[Len(s)] \in cs
    THEN RStrip(SubSeq(s, 1, Len(s) - 1), cs) ELSE s

\* str.strip(chars); strip() with no argument strips Whitespace
Strip(s, cs) == RStrip(LStrip(s, cs), cs)
Whitespace == {" "}

HasPathMarker(predicate) == predicate # <<>> /\ Head(predicate) = "Path="

\* _load_routes, lines 35-52, on one route record of the configuration
load_route(route) ==
    [uri |-> IF route.uri # <<>> /\ Head(route.uri) \in {"http://", "https://"}
             THEN route.uri ELSE <<"http://">> \o route.uri,
     predicates |->
        [i \in DOMAIN route.predicates |->
            LET p == route.predicates[i] IN
            IF HasPathMarker(p)
            THEN <<"Path=">> \o Strip(Tail(p), Whitespace) ELSE p]]

load_routes(config) == [i \in DOMAIN config |-> load_route(config[i])]

\* process_request, lines 122-126 and the strip('/') of line 129
path_pattern(predicate) ==
    LET a == Strip(Tail(predicate), Whitespace)
        b == IF a # <<>> /\ a[Len(a)] = "/"
             THEN SubSeq(a, 1, Len(a) - 1) ELSE a IN
    Strip(b, {"/"})

\* process_request, lines 121 and 129
predicate_matches(predicate, full_path) ==
    /\ HasPathMarker(predicate)
    /\ StartsWith(full_path, path_pattern(predicate))

\* service_url as None
NoRoute == <<>>

\* The loop over routes without "if service_url: break" (line 135): the
\* last route with a matching predicate wins.
RECURSIVE service_url_no_break(_, _)
service_url_no_break(routes, full_path) ==
    IF routes = <<>> THEN NoRoute
    ELSE LET route == routes[Len(routes)] IN
         IF /\ \E i \in DOMAIN route.predicates :
                  predicate_matches(route.predicates[i], full_path)
            /\ route.uri # <<>>
         THEN route.uri
         ELSE service_url_no_break(SubSeq(routes, 1, Len(routes) - 1),
                                   full_path)

\* process_request, lines 117-136: service_url after the loop over routes
RECURSIVE service_url(_, _)
service_url(routes, full_path) ==
    IF routes = <<>> THEN NoRoute
    ELSE LET route == Head(routes) IN
         IF /\ \E i \in DOMAIN route.predicates :
                  predicate_matches(route.predicates[i], full_path)
            /\ route.uri # <<>>
         THEN route.uri
         ELSE service_url(Tail(routes), full_path)

\* The route parameter {full_path:path} of "/{full_path:path}"
full_path_of(path) == Tail(path)

\* proxy_request, line 63
req_url(url, path) == url \o path

\* proxy_request, line 72
cache_key(path, query) == <<"c", "a", "c", "h", "e", ":">> \o path \o query

\* request(), line 89: url.split('/')[2]; a host is one token
service_base(url) == IF Len(url) >= 2 THEN url[2] ELSE "unknown_service"

\* invalidate_cache using the whole path, the split("/")[0] left out.
first_segment_whole(p) == p

\* invalidate_cache, line 161: path.split("/")[0]
RECURSIVE first_segment(_)
first_segment(p) ==
    IF p = <<>> \/ Head(p) = "/" THEN <<>>
    ELSE <<Head(p)>> \o first_segment(Tail(p))

\* The routes file of the gateway under study: one route, /u/ -> http://u
RoutesYml ==
    << [uri |-> <<"u">>, predicates |-> << <<"Path=", "/", "u", "/">> >>] >>

Methods == {"GET", "POST"}
Paths == {<<"/", "u", "/", "1">>, <<"/", "u", "/", "2">>, <<"/", "n", "/", "1">>}
Queries == {<<>>, <<"a", "=", "1">>}
\* The requests the clients make: GET /u/1, GET /n/1, POST /u/2?a=1
Requests ==
    {r \in Methods \X Paths \X Queries :
        /\ r[2][4] = (IF r[1] = "GET" THEN "1" ELSE "2")
        /\ r[1] = "POST" => r[2][2] = "u"
        /\ (r[3] # <<>>) = (r[1] = "POST")}
RequestIds == Paths \X Queries

\* Response bodies of the upstream: JSON texts and one that is not JSON.
JsonBodies == {"{\"id\":42}", "{}"}
Bodies == JsonBodies \cup {"<html>"}
\* JSON texts whose decoded value is false in a Python condition
Falsy == {"{}", "[]", "0", "false", "null", "\"\""}
Truthy(v) == v \notin Falsy

NoAnswer == [body |-> "none", at |-> 0]
\* after, was, quiet: observers of the state in which the request began
\* url: observer of the URL that was handed to request()
NoRequest == [method |-> "none", path |-> <<>>, query |-> <<>>, after |-> "no",
              was |-> NoAnswer, quiet |-> TRUE, url |-> <<>>]
NoResp == [http |-> 0, kind |-> "none", body |-> "none", status |-> 0,
           message |-> "none"]
JSONResponse(content) ==
    [http |-> 200, kind |-> "JSONResponse", body |-> content, status |-> 0,
     message |-> "none"]
StreamingResponse(code, content) ==
    [http |-> code, kind |-> "StreamingResponse", body |-> content,
     status |-> 0, message |-> "none"]
\* A dict returned by a handler: the framework sends it as a 200 JSON body.
DictResponse(d) ==
    [http |-> 200, kind |-> "dict", body |-> "dict", status |-> d.status,
     message |-> d.message]

return_not_found == [status |-> 404, message |-> "Resource not found"]
return_error(error_message) == [status |-> 500, message |-> error_message]

InitGatewayVars ==
    /\ greq = NoRequest
    /\ gpc = "idle"
    /\ gbody = "none"
    /\ gtime = 0
    /\ gresp = NoResp
    /\ answered = [i \in RequestIds |-> NoAnswer]
    /\ swept = [i \in RequestIds |-> "no"]

\* Routes files for the matcher: route i has the upstream Uri(i), written
\* without a scheme when i is odd, and one of the PredicateLists.
Uri(i) == IF i % 2 = 0 THEN <<"http://", ToString(i)>> ELSE <<ToString(i)>>
Predicates ==
    {<<"Path=", "/", "x">>, <<"Path=", "/", "x", "/", "y">>, <<"/", "y">>,
     <<"Path=", " ", "/", "z", "/", " ">>}
PredicateLists ==
    {<<>>} \cup {<<p>> : p \in Predicates}
           \cup {pq \in Predicates \X Predicates : pq[1] # pq[2]}
RouteTables ==
    UNION {{[i \in 1..n |-> [uri |-> Uri(i), predicates |-> f[i]]] :
                f \in [1..n -> PredicateLists]} : n \in 0..MaxRoutes}
RouterPaths ==
    {<<"/", "x", "/", "y", "/", "z">>, <<"/", "x", "y">>,
     <<"/", "y", "/", "1">>, <<"/", "z">>, <<"/">>}

NoRouterRequest == [path |-> <<>>]
NoRouterResult == [done |-> FALSE, service_url |-> NoRoute]

InitRouterVars ==
    /\ rconfig = <<>>
    /\ rreq = NoRouterRequest
    /\ rres = NoRouterResult

----------------------------------------------------------------------------
(* TokenManager, authenticate_user and the routes of the application.      *)
(* A bearer token is a one-token string; what jwt.decode makes of it is    *)
(* given by Signed and Payload.                                            *)

\* The tokens presented: "good" is signed and carries exp = 20, "noexp" is
\* signed and carries no exp claim, "forged" does not verify.
Tokens == {<<"good">>, <<"noexp">>, <<"forged">>}
Signed(token) == token \in {<<"good">>, <<"noexp">>}
Payload(token) ==
    IF token = <<"good">> THEN [sub |-> "alice", exp |-> 20]
    ELSE [sub |-> "bob"]
NoPayload == [sub |-> "none"]

\* jwt.decode (line 24): an exception name, or "ok" with the payload.  A
\* token whose exp is not in the future is expired.
jwt_decode(token, t) ==
    IF ~Signed(token) THEN "InvalidTokenError"
    ELSE IF "exp" \in DOMAIN Payload(token) /\ Payload(token).exp <= t
    THEN "ExpiredSignatureError"
    ELSE "ok"

NoEntry == [payload |-> NoPayload, exp |-> 0]

\* clean_expired_tokens, lines 40-43
clean_expired_tokens(cache, t) ==
    [k \in {x \in DOMAIN cache : cache[x].exp > t} |-> cache[k]]

\* validate_token, lines 22-38: the token is decoded and cached.
verify_token(cache, token, t) ==
    LET decoded == jwt_decode(token, t) IN
    IF decoded = "ok"
    THEN LET payload == Payload(token)
             exp == IF "exp" \in DOMAIN payload THEN payload.exp
                    ELSE t + DefaultTokenLife
             put == [k \in DOMAIN cache \cup {token} |->
                       IF k = token THEN [payload |-> payload, exp |-> exp]
                       ELSE cache[k]] IN
         [cache |-> IF Cardinality(DOMAIN put) > TokenCacheCap
                    THEN clean_expired_tokens(put, t) ELSE put,
          ok |-> TRUE, payload |-> payload, hit |-> FALSE,
          status |-> 0, detail |-> "none"]
    ELSE [cache |-> cache, ok |-> FALSE, payload |-> NoPayload,
          hit |-> FALSE, status |-> 401,
          detail |-> IF decoded = "ExpiredSignatureError"
                     THEN "Token expired" ELSE "Invalid token"]

\* validate_token serving an entry at the very second it expires.
validate_token_stale(cache, token, t) ==
    IF token \in DOMAIN cache /\ cache[token].exp >= t
    THEN [cache |-> cache, ok |-> TRUE, payload |-> cache[token].payload,
          hit |-> TRUE, status |-> 0, detail |-> "none"]
    ELSE verify_token(cache, token, t)

\* validate_token, lines 14-38, called at time t: the cache after the call,
\* and the payload returned or the HTTPException raised.
validate_token(cache, token, t) ==
    IF token \in DOMAIN cache /\ cache[token].exp > t
    THEN [cache |-> cache, ok |-> TRUE, payload |-> cache[token].payload,
          hit |-> TRUE, status |-> 0, detail |-> "none"]
    ELSE verify_token(cache, token, t)

\* Authorization headers: absent, three bearer tokens, another scheme, and
\* a bearer token after two spaces.
NoHeader == <<>>
Headers ==
    {NoHeader, <<"Bearer", " ", "good">>, <<"Bearer", " ", "noexp">>,
     <<"Bearer", " ", "forged">>, <<"Basic", " ", "good">>,
     <<"Bearer", " ", " ", "good">>}

\* auth_header.split(" ")[1] of a header that starts with "Bearer "
RECURSIVE until_space(_)
until_space(s) ==
    IF s = <<>> \/ Head(s) = " " THEN <<>>
    ELSE <<Head(s)>> \o until_space(Tail(s))
bearer_token(auth_header) == until_space(SubSeq(auth_header, 3, Len(auth_header)))

skip_paths == {<<"login">>, <<"health">>}

\* authenticate_user, lines 4-21
authenticate_user(path, auth_header, cache, t) ==
    IF \E skip_path \in skip_paths : StartsWith(Strip(path, {"/"}), skip_path)
    THEN [cache |-> cache, ok |-> TRUE, payload |-> NoPayload, hit |-> FALSE,
          status |-> 0, detail |-> "none"]
    ELSE IF ~StartsWith(auth_header, <<"Bearer", " ">>)
    THEN [cache |-> cache, ok |-> FALSE, payload |-> NoPayload, hit |-> FALSE,
          status |-> 401, detail |-> "Missing or invalid Authorization header"]
    ELSE validate_token(cache, bearer_token(auth_header), t)

\* The routes of the application in the order main.py includes the routers
\* (lines 27-29): the five gateway routes, reset_circuit, health_check.
AppRoutes_admin_first ==
    << [handler |-> "reset_circuit", method |-> "POST", path |-> "admin",
        auth |-> FALSE],
       [handler |-> "gateway_get", method |-> "GET", path |-> "any",
        auth |-> TRUE],
       [handler |-> "gateway_post", method |-> "POST", path |-> "any",
        auth |-> TRUE] >>

AppRoutes ==
    << [handler |-> "gateway_get", method |-> "GET", path |-> "any",
        auth |-> TRUE],
       [handler |-> "gateway_post", method |-> "POST", path |-> "any",
        auth |-> TRUE],
       [handler |-> "gateway_put", method |-> "PUT", path |-> "any",
        auth |-> TRUE],
       [handler |-> "gateway_delete", method |-> "DELETE", path |-> "any",
        auth |-> TRUE],
       [handler |-> "gateway_patch", method |-> "PATCH", path |-> "any",
        auth |-> TRUE],
       [handler |-> "reset_circuit", method |-> "POST", path |-> "admin",
        auth |-> FALSE],
       [handler |-> "health_check", method |-> "GET", path |-> "health",
        auth |-> FALSE] >>

\* The path of a route matches the whole request path.
PathMatches(pattern, path) ==
    IF pattern = "any" THEN path # <<>> /\ Head(path) = "/"
    ELSE IF pattern = "admin"
    THEN /\ Len(path) = 6
         /\ SubSeq(path, 1, 5) = <<"/", "admin", "/", "reset-circuit", "/">>
         /\ path[6] # "/"
    ELSE path = <<"/", "health">>

NoAppRoute == [handler |-> "none", method |-> "none", path |-> "none",
               auth |-> FALSE]

\* The router's choice: the first route whose path and method both match.
Dispatch(method, path) ==
    LET hits == {i \in DOMAIN AppRoutes :
                    /\ AppRoutes[i].method = method
                    /\ PathMatches(AppRoutes[i].path, path)} IN
    IF hits = {} THEN NoAppRoute
    ELSE AppRoutes[CHOOSE i \in hits : \A j \in hits : i <= j]

AuthMethods == {"GET", "POST"}
AuthPaths ==
    {<<"/", "u", "/", "1">>, <<"/", "health">>, <<"/", "login", "/", "1">>,
     <<"/", "admin", "/", "reset-circuit", "/", "u">>}

NoAuthRequest == [method |-> "none", path |-> <<>>, header |-> NoHeader]
\* entered: the body of the handler ran; hit, entry: observers of the
\* validate_token call and of the cache entry it found
NoAuthResponse ==
    [status |-> 0, detail |-> "none", handler |-> "none", entered |-> FALSE,
     hit |-> FALSE, entry |-> NoEntry]

InitAuthVars ==
    /\ token_cache = <<>>
    /\ areq = NoAuthRequest
    /\ aresp = NoAuthResponse

----------------------------------------------------------------------------
(* The cache key of proxy_request, over pairs of requests.  A path is "/"  *)
(* followed by up to MaxKeyPath characters, a query up to MaxKeyQuery      *)
(* characters; "a" and "=" may stand in a path as well as in a query.      *)

\* The sequences over S of length at most n
SeqUpTo(S, n) == UNION {[1..m -> S] : m \in 0..n}

KeyRequests ==
    {<<(<<"/">> \o p), q>> :
        p \in SeqUpTo({"u", "a"}, MaxKeyPath),
        q \in SeqUpTo({"a", "="}, MaxKeyQuery)}

InitKeyVars ==
    /\ kreq = <<>>
    /\ kkeys = <<>>

----------------------------------------------------------------------------
(* HttpClientManager.request and its callers *)

Tasks == {"t1", "t2"}
RetriesArgs == {0, 1, DefaultRetries}
ServiceNames == {"u", "x"}

NoResult == [kind |-> "none", status |-> 0, detail |-> "none"]
Response(code) == [kind |-> "response", status |-> code, detail |-> "upstream"]
HTTPException(code, d) == [kind |-> "HTTPException", status |-> code, detail |-> d]

\* What the upstream can answer to one attempt: a response with a status
\* code, or a transport error (httpx.RequestError).
Outcomes ==
    {[kind |-> "response", status |-> c] : c \in {200, 404, 500}}
    \cup {[kind |-> "error", status |-> 0]}

Max(a, b) == IF a >= b THEN a ELSE b

\* The test of line 113 written < 400: a 4xx response counts as a failure.
IsSuccess_below400(o) == o.kind = "response" /\ o.status < 400

\* The test of line 113 on a response.
IsSuccess(o) == o.kind = "response" /\ o.status < 500

\* GatewayController.process_request / proxy_request after request() ended:
\* a response is passed on with its status; an exception is caught by
\* "except Exception" and return_error's dict is returned, which the
\* framework serialises as a 200 response.
\* http: the status line; status and detail: what the body says.
process_request(res) ==
    IF res.kind = "response"
    THEN [http |-> res.status, status |-> res.status, detail |-> "upstream"]
    ELSE [http |-> 200, status |-> 500, detail |-> res.detail]

NoClient == [http |-> 0, status |-> 0, detail |-> "none"]

InitTasks ==
    /\ pc = [t \in Tasks |-> "idle"]
    /\ host = [t \in Tasks |-> "u"]
    /\ retries = [t \in Tasks |-> 0]
    /\ attempt = [t \in Tasks |-> 0]
    /\ wake = [t \in Tasks |-> 0]
    /\ sent = [t \in Tasks |-> 0]
    /\ seen = [t \in Tasks |-> "none"]
    /\ probe = [t \in Tasks |-> "none"]
    /\ result = [t \in Tasks |-> NoResult]
    /\ client = [t \in Tasks |-> NoClient]

\* The call ends: what request() hands to proxy_request, and what the
\* client gets.
Ends(t, res) ==
    /\ pc' = [pc EXCEPT ![t] = "done"]
    /\ result' = [result EXCEPT ![t] = res]
    /\ client' = [client EXCEPT ![t] = process_request(res)]

\* Lines 98-110: the top of the loop for attempt a, on the breaker map cbs.
LoopTop(t, h, cbs, a) ==
    LET r == should_allow_request(cbs[h], now) IN
    /\ r.cb.retry_attempt <= MaxRetryAttempt
    /\ circuit_breakers' = [cbs EXCEPT ![h] = r.cb]
    /\ attempt' = [attempt EXCEPT ![t] = a]
    /\ wake' = [wake EXCEPT ![t] = 0]
    /\ IF r.ret
       THEN /\ pc' = [pc EXCEPT ![t] = "sending"]
            /\ sent' = [sent EXCEPT ![t] = @ + 1]
            /\ probe' = [probe EXCEPT ![t] = cbs[h].status]
            /\ UNCHANGED <<result, client>>
       ELSE /\ Ends(t, HTTPException(503, "unavailable, will retry"))
            /\ UNCHANGED <<sent, probe>>

\* Lines 80-110: request() is called and runs to its first await.
Start(t) ==
    /\ pc[t] = "idle"
    /\ \E h \in Hosts, r \in RetriesArgs :
          /\ host' = [host EXCEPT ![t] = h]
          /\ retries' = [retries EXCEPT ![t] = r]
          /\ LoopTop(t, h, get_circuit_breaker(circuit_breakers, h), 0)
    /\ UNCHANGED <<now, cacheVars, gatewayVars, frontVars, harnessVars, seen>>

\* Lines 127-142: what follows a recorded failure of attempt a of r, the
\* breaker's status being st: an exception, or the backoff sleep.
Sleep == [kind |-> "sleep", status |-> 0, detail |-> "backoff"]

\* after_failure handing the last 5xx response on instead of raising 502.
after_failure_pass(st, a, r) ==
    IF st = "open" /\ a = r - 1
    THEN HTTPException(503, "unavailable after failures")
    ELSE IF a < r - 1
    THEN Sleep
    ELSE Response(500)

after_failure(st, a, r) ==
    IF st = "open" /\ a = r - 1
    THEN HTTPException(503, "unavailable after failures")
    ELSE IF a < r - 1
    THEN Sleep
    ELSE HTTPException(502, "unavailable after attempts")

\* Lines 108-139: the awaited upstream request ends with outcome o.
RespondWith(t, o) ==
    /\ pc[t] = "sending"
    /\ LET h == host[t]
           cb == circuit_breakers[h] IN
       IF IsSuccess(o)
       THEN /\ circuit_breakers' =
                  [circuit_breakers EXCEPT ![h] =
                      IF cb.status \in {"open", "half-open"}
                      THEN record_success(cb) ELSE cb]
            /\ Ends(t, Response(o.status))
            /\ seen' = [seen EXCEPT ![t] = "ok"]
            /\ UNCHANGED wake
       ELSE LET cb2 == record_failure(cb, now)
                next == after_failure(cb2.status, attempt[t], retries[t]) IN
            /\ cb.failures < MaxFailures
            /\ circuit_breakers' = [circuit_breakers EXCEPT ![h] = cb2]
            /\ seen' = [seen EXCEPT ![t] =
                           IF o.kind = "error" \/ @ = "error" THEN "error"
                           ELSE "5xx"]
            /\ IF next.kind = "sleep"
               THEN /\ pc' = [pc EXCEPT ![t] = "sleeping"]
                    /\ wake' = [wake EXCEPT ![t] =
                           2 * now + BackoffHalfSeconds * (2 ^ attempt[t])]
                    /\ UNCHANGED <<result, client>>
               ELSE /\ Ends(t, next)
                    /\ UNCHANGED wake
    /\ UNCHANGED <<now, cacheVars, gatewayVars, frontVars, harnessVars, host, retries,
                   attempt, sent, probe>>

Respond(t) == \E o \in Outcomes : RespondWith(t, o)

\* Lines 139, 98-110: the sleep is over and the next attempt begins.
Wake(t) ==
    /\ pc[t] = "sleeping"
    /\ 2 * now >= wake[t]
    /\ attempt[t] + 1 < Max(1, retries[t])
    /\ LoopTop(t, host[t], circuit_breakers, attempt[t] + 1)
    /\ UNCHANGED <<now, cacheVars, gatewayVars, frontVars, harnessVars, host, retries,
                   seen>>

\* The caller has its answer; the task is free for the next request.
Finish(t) ==
    /\ pc[t] = "done"
    /\ pc' = [pc EXCEPT ![t] = "idle"]
    /\ retries' = [retries EXCEPT ![t] = 0]
    /\ attempt' = [attempt EXCEPT ![t] = 0]
    /\ sent' = [sent EXCEPT ![t] = 0]
    /\ seen' = [seen EXCEPT ![t] = "none"]
    /\ probe' = [probe EXCEPT ![t] = "none"]
    /\ result' = [result EXCEPT ![t] = NoResult]
    /\ client' = [client EXCEPT ![t] = NoClient]
    /\ UNCHANGED <<now, cacheVars, gatewayVars, frontVars, breakerVars, host, wake>>

\* AdminController.reset_circuit_breaker: every breaker whose host contains
\* service_name is reset (hosts here are one character long).
AdminReset ==
    /\ \E name \in ServiceNames :
          LET matches == {b \in DOMAIN circuit_breakers : name = b} IN
          /\ matches # {}
          /\ circuit_breakers' =
                [b \in DOMAIN circuit_breakers |->
                    IF b \in matches THEN record_success(circuit_breakers[b])
                    ELSE circuit_breakers[b]]
    /\ UNCHANGED <<now, harnessVars, taskVars, cacheVars, gatewayVars, frontVars>>

TickClient ==
    /\ \E d \in TimeSteps :
          /\ now + d <= MaxNowClient
          /\ now' = now + d
    /\ UNCHANGED <<breakerVars, taskVars, cacheVars, gatewayVars, frontVars>>

InitClient ==
    /\ now = 0
    /\ circuit_breakers = <<>>
    /\ allowed = TRUE
    /\ streak = 0
    /\ probes = 0
    /\ InitTasks
    /\ InitCacheVars
    /\ InitGatewayVars
    /\ InitRouterVars
    /\ InitAuthVars
    /\ InitKeyVars

NextClient ==
    \/ TickClient
    \/ AdminReset
    \/ \E t \in Tasks : Start(t)
    \/ \E t \in Tasks : Respond(t)
    \/ \E t \in Tasks : Wake(t)
    \/ \E t \in Tasks : Finish(t)

SpecClient == InitClient /\ [][NextClient]_vars

----------------------------------------------------------------------------
(* request() with cancellation: the client disconnects while the upstream  *)
(* attempt is awaited at line 108.                                         *)

\* Cancel with the except clause of line 123 widened to the cancellation:
\* it is recorded as a failure before the task ends.
Cancel_as_failure(t) ==
    /\ pc[t] = "sending"
    /\ circuit_breakers[host[t]].failures < MaxFailures
    /\ circuit_breakers' =
          [circuit_breakers EXCEPT
              ![host[t]] = record_failure(circuit_breakers[host[t]], now)]
    /\ pc' = [pc EXCEPT ![t] = "idle"]
    /\ retries' = [retries EXCEPT ![t] = 0]
    /\ attempt' = [attempt EXCEPT ![t] = 0]
    /\ sent' = [sent EXCEPT ![t] = 0]
    /\ seen' = [seen EXCEPT ![t] = "none"]
    /\ probe' = [probe EXCEPT ![t] = "none"]
    /\ UNCHANGED <<now, cacheVars, gatewayVars, frontVars, harnessVars, host,
                   wake, result, client>>

\* Lines 107-125: asyncio.CancelledError is raised by the await of line
\* 108.  It is not an httpx.RequestError, so the except clause of line 123
\* does not take it, and neither record_success nor record_failure runs;
\* it is not an Exception either, so process_request does not turn it into
\* an answer: the task ends and nothing is sent.
Cancel(t) ==
    /\ pc[t] = "sending"
    /\ pc' = [pc EXCEPT ![t] = "idle"]
    /\ retries' = [retries EXCEPT ![t] = 0]
    /\ attempt' = [attempt EXCEPT ![t] = 0]
    /\ sent' = [sent EXCEPT ![t] = 0]
    /\ seen' = [seen EXCEPT ![t] = "none"]
    /\ probe' = [probe EXCEPT ![t] = "none"]
    /\ UNCHANGED <<now, cacheVars, gatewayVars, frontVars, breakerVars, host,
                   wake, result, client>>

NextCancel ==
    \/ TickClient
    \/ \E t \in Tasks : Start(t)
    \/ \E t \in Tasks : Respond(t)
    \/ \E t \in Tasks : Wake(t)
    \/ \E t \in Tasks : Finish(t)
    \/ \E t \in Tasks : Cancel(t)

SpecCancel == InitClient /\ [][NextCancel]_vars

\* C25: when the task of an in-flight attempt is cancelled, every breaker
\* keeps its status, failures, last_failure, recovery_time and
\* retry_attempt.
C25_CancelLeavesBreaker ==
    [][\A t \in Tasks :
          (pc[t] = "sending" /\ pc'[t] = "idle")
          => circuit_breakers' = circuit_breakers
      ]_vars

\* The probe of a half-open breaker was cancelled: no request is in hand
\* and the breaker is still half-open, which no response leaves it in.
C25_Witness ==
    /\ \A t \in Tasks : pc[t] = "idle"
    /\ "u" \in DOMAIN circuit_breakers
    /\ circuit_breakers["u"].status = "half-open"
    /\ circuit_breakers["u"].retry_attempt = 1

----------------------------------------------------------------------------
(* request() over a long time: the clock moves in steps of the baseline    *)
(* window up to MaxNowAdmit, time keeps advancing, the one caller keeps    *)
(* calling and every awaited attempt and sleep ends.                       *)

\* The last time the clock reaches
Horizon == (MaxNowAdmit \div DefaultResetTimeout) * DefaultResetTimeout

TickAdmit ==
    /\ now + DefaultResetTimeout <= MaxNowAdmit
    /\ now' = now + DefaultResetTimeout
    /\ UNCHANGED <<breakerVars, taskVars, cacheVars, gatewayVars, frontVars>>

NextAdmit ==
    \/ TickAdmit
    \/ Start("t1")
    \/ Respond("t1")
    \/ Wake("t1")
    \/ Finish("t1")

FairAdmit ==
    /\ WF_vars(TickAdmit)
    /\ WF_vars(Start("t1"))
    /\ WF_vars(Respond("t1"))
    /\ WF_vars(Wake("t1"))
    /\ WF_vars(Finish("t1"))

SpecAdmit == InitClient /\ [][NextAdmit]_vars /\ FairAdmit

\* The breaker of host h is open.
Open(h) == h \in DOMAIN circuit_breakers /\ circuit_breakers[h].status = "open"

\* The end of the window of h's breaker and the admission after it are
\* within what the model covers.
WithinHorizon(h) ==
    /\ h \in DOMAIN circuit_breakers
    /\ circuit_breakers[h].last_failure + circuit_breakers[h].recovery_time
          <= Horizon
    /\ circuit_breakers[h].retry_attempt < MaxRetryAttempt

\* C29: an open breaker does not deny forever: with time advancing and
\* requests arriving, every open state is followed by a state in which the
\* breaker has admitted a request and is half-open, whatever failures and
\* failed probes came before, as long as the end of its window is within
\* the time the model covers.
C29_OpenAdmitsAgain ==
    \A h \in Hosts :
       (Open(h) /\ WithinHorizon(h))
       ~> (\/ ~WithinHorizon(h)
           \/ circuit_breakers[h].status = "half-open")

\* The fourth failed probe has put the window at its cap of 300 s, and the
\* first request after the window was admitted.
C29_Witness ==
    /\ "u" \in DOMAIN circuit_breakers
    /\ circuit_breakers["u"].status = "half-open"
    /\ circuit_breakers["u"].retry_attempt = 5
    /\ circuit_breakers["u"].recovery_time = 300
    /\ now = circuit_breakers["u"].last_failure + 300
    /\ pc["t1"] = "sending"
    /\ probe["t1"] = "open"

----------------------------------------------------------------------------
(* CacheManager: its calls *)

LockFree == cache_lock = "free" /\ lock_waiters = <<>>
LockGranted(t) ==
    cache_lock = "free" /\ lock_waiters # <<>> /\ Head(lock_waiters) = t

\* The call ends with value r.
Returns(t, r) ==
    /\ cpc' = [cpc EXCEPT ![t] = "done"]
    /\ cret' = [cret EXCEPT ![t] = r]

\* Observer: a set writes key k now.
Stamp(k) == IF k \in DOMAIN setat THEN [setat EXCEPT ![k] = now] ELSE setat

\* get, lines 33-38: the local check under the lock, at time now.
GetLocal(t, k) ==
    /\ cnow' = [cnow EXCEPT ![t] = now]
    /\ IF k \in DOMAIN local_cache /\ local_cache[k].expiry > now
       THEN Returns(t, Some(local_cache[k].data))
       ELSE /\ cpc' = [cpc EXCEPT ![t] = "get_remote"]
            /\ UNCHANGED cret

\* get, lines 47-51: the insert under the lock after a remote hit.
GetInsert(t) ==
    LET data == loads(cval[t].data)
        lc == Put(local_cache, ckey[t],
                  [data |-> data, expiry |-> cnow[t] + LocalTTL]) IN
    /\ local_cache' \in prune_local_cache(lc, now, max_local_cache_size)
    /\ Returns(t, Some(data))

\* set, lines 59-72: under the lock, the local update of _update_local_cache.
SetLocal(t, k, v) ==
    LET lc == Put(local_cache, k,
                  [data |-> v, expiry |-> now + Min(CacheTTL, LocalTTL)]) IN
    /\ cache_lock' = t
    /\ local_cache' \in prune_local_cache(lc, now, max_local_cache_size)
    /\ cpc' = [cpc EXCEPT ![t] = "set_remote"]
    /\ invalidated' = [invalidated EXCEPT ![k] = FALSE]
    /\ setat' = Stamp(k)
    /\ covered' = [u \in CTasks |->
                     IF cop[u] = "get" /\ ckey[u] = k THEN FALSE
                     ELSE covered[u]]

\* invalidate, lines 76-83: under the lock, the local entries are removed.
InvLocal(t, p) ==
    /\ cache_lock' = t
    /\ local_cache' = Restrict(local_cache,
                         {k \in DOMAIN local_cache : ~IsSubstring(p, k)})
    /\ cpc' = [cpc EXCEPT ![t] = "inv_keys"]

\* A call of get(k), set(k, v, CacheTTL) or invalidate(p) begins: it runs
\* on if the lock is free and waits in line otherwise.
GetCall(t) ==
    /\ cpc[t] = "idle"
    /\ \E k \in Keys :
          /\ cop' = [cop EXCEPT ![t] = "get"]
          /\ ckey' = [ckey EXCEPT ![t] = k]
          /\ covered' = [covered EXCEPT ![t] = invalidated[k]]
          /\ IF LockFree
             THEN GetLocal(t, k) /\ UNCHANGED lock_waiters
             ELSE /\ lock_waiters' = Append(lock_waiters, t)
                  /\ cpc' = [cpc EXCEPT ![t] = "get_wait"]
                  /\ UNCHANGED <<cnow, cret>>
    /\ UNCHANGED <<now, circuit_breakers, harnessVars, taskVars, gatewayVars, frontVars,
                   local_cache,
                   redis, max_local_cache_size, cache_lock, cval, ckeys,
                   invalidated, setat, cerr>>

SetCall(t) ==
    /\ cpc[t] = "idle"
    /\ \E k \in Keys, v \in Values :
          /\ cop' = [cop EXCEPT ![t] = "set"]
          /\ ckey' = [ckey EXCEPT ![t] = k]
          /\ cval' = [cval EXCEPT ![t] = Some(v)]
          /\ IF LockFree
             THEN SetLocal(t, k, v) /\ UNCHANGED lock_waiters
             ELSE /\ lock_waiters' = Append(lock_waiters, t)
                  /\ cpc' = [cpc EXCEPT ![t] = "set_wait"]
                  /\ invalidated' = [invalidated EXCEPT ![k] = FALSE]
                  /\ UNCHANGED setat
                  /\ covered' = [u \in CTasks |->
                                   IF cop[u] = "get" /\ ckey[u] = k THEN FALSE
                                   ELSE covered[u]]
                  /\ UNCHANGED <<local_cache, cache_lock>>
    /\ UNCHANGED <<now, circuit_breakers, harnessVars, taskVars, gatewayVars, frontVars,
                   redis,
                   max_local_cache_size, cnow, ckeys, cret, cerr>>

InvCall(t) ==
    /\ cpc[t] = "idle"
    /\ \E p \in Patterns :
          /\ cop' = [cop EXCEPT ![t] = "invalidate"]
          /\ ckey' = [ckey EXCEPT ![t] = p]
          /\ IF LockFree
             THEN InvLocal(t, p) /\ UNCHANGED lock_waiters
             ELSE /\ lock_waiters' = Append(lock_waiters, t)
                  /\ cpc' = [cpc EXCEPT ![t] = "inv_wait"]
                  /\ UNCHANGED <<local_cache, cache_lock>>
    /\ UNCHANGED <<now, circuit_breakers, harnessVars, taskVars, gatewayVars, frontVars,
                   redis,
                   max_local_cache_size, cval, cnow, ckeys, cret,
                   invalidated, setat, covered, cerr>>

\* The waiting call at the head of the line gets the released lock.
LockHandover(t) ==
    /\ LockGranted(t)
    /\ lock_waiters' = Tail(lock_waiters)
    /\ \/ /\ cpc[t] = "get_wait"
          /\ GetLocal(t, ckey[t])
          /\ UNCHANGED <<local_cache, cache_lock, invalidated, setat, covered>>
       \/ /\ cpc[t] = "get_wait2"
          /\ GetInsert(t)
          /\ UNCHANGED <<cache_lock, cnow, invalidated, setat, covered>>
       \/ /\ cpc[t] = "set_wait"
          /\ SetLocal(t, ckey[t], cval[t].data)
          /\ UNCHANGED <<cnow, cret>>
       \/ /\ cpc[t] = "inv_wait"
          /\ InvLocal(t, ckey[t])
          /\ UNCHANGED <<cnow, cret, invalidated, setat, covered>>
    /\ UNCHANGED <<now, circuit_breakers, harnessVars, taskVars, gatewayVars, frontVars,
                   redis,
                   max_local_cache_size, cop, ckey, cval, ckeys, cerr>>

\* get, lines 41-55: the store answers redis.get (or fails) and get goes on:
\* no data or an error returns None; data is inserted under the lock.
GetRemote(t) ==
    /\ cpc[t] = "get_remote"
    /\ \E ok \in BOOLEAN :
          /\ cerr' = [cerr EXCEPT ![t] = @ \/ ~ok]
          /\ IF ok /\ ckey[t] \in RedisLive(now)
             THEN /\ cval' = [cval EXCEPT ![t] = Some(redis[ckey[t]].data)]
                  /\ cpc' = [cpc EXCEPT ![t] = "get_reply"]
                  /\ UNCHANGED cret
             ELSE /\ Returns(t, None)
                  /\ UNCHANGED cval
    /\ UNCHANGED <<now, circuit_breakers, harnessVars, taskVars, gatewayVars, frontVars,
                   local_cache,
                   redis, max_local_cache_size, cache_lock, lock_waiters, cop,
                   ckey, cnow, ckeys, invalidated, setat, covered>>

GetResume(t) ==
    /\ cpc[t] = "get_reply"
    /\ IF LockFree
       THEN GetInsert(t) /\ UNCHANGED lock_waiters
       ELSE /\ lock_waiters' = Append(lock_waiters, t)
            /\ cpc' = [cpc EXCEPT ![t] = "get_wait2"]
            /\ UNCHANGED <<local_cache, cret>>
    /\ UNCHANGED <<now, circuit_breakers, harnessVars, taskVars, gatewayVars, frontVars,
                   redis,
                   max_local_cache_size, cache_lock, cop, ckey, cval, cnow,
                   ckeys, invalidated, setat, covered, cerr>>

\* set, lines 63-66: redis.setex is done (or fails), gather ends and the
\* lock is released.
SetRemote(t) ==
    /\ cpc[t] = "set_remote"
    /\ \E ok \in BOOLEAN :
          /\ cerr' = [cerr EXCEPT ![t] = @ \/ ~ok]
          /\ IF ok
             THEN /\ redis' = Put(redis, ckey[t],
                                  [data |-> dumps(cval[t].data),
                                   expiry |-> now + CacheTTL])
                  /\ setat' = Stamp(ckey[t])
                  /\ Returns(t, None)
             ELSE /\ Returns(t, Raised)
                  /\ UNCHANGED <<redis, setat>>
    /\ cache_lock' = "free"
    /\ UNCHANGED <<now, circuit_breakers, harnessVars, taskVars, gatewayVars, frontVars,
                   local_cache,
                   max_local_cache_size, lock_waiters, cop, ckey, cval, cnow,
                   ckeys, invalidated, covered>>

\* invalidate, line 83: redis.keys answers (or fails).
InvKeys(t) ==
    /\ cpc[t] = "inv_keys"
    /\ \E ok \in BOOLEAN :
          LET keys == {k \in RedisLive(now) : IsSubstring(ckey[t], k)} IN
          /\ cerr' = [cerr EXCEPT ![t] = @ \/ ~ok]
          /\ IF ok /\ keys # {}
             THEN /\ ckeys' = [ckeys EXCEPT ![t] = keys]
                  /\ cpc' = [cpc EXCEPT ![t] = "inv_delete"]
                  /\ UNCHANGED <<cret, cache_lock, invalidated>>
             ELSE /\ Returns(t, IF ok THEN None ELSE Raised)
                  /\ cache_lock' = "free"
                  /\ invalidated' =
                        [k \in Keys |->
                           IF ok /\ IsSubstring(ckey[t], k) THEN TRUE
                           ELSE invalidated[k]]
                  /\ UNCHANGED ckeys
    /\ UNCHANGED <<now, circuit_breakers, harnessVars, taskVars, gatewayVars, frontVars,
                   local_cache,
                   redis, max_local_cache_size, lock_waiters, cop, ckey, cval,
                   cnow, covered, setat>>

\* invalidate, lines 84-85: redis.delete is done (or fails) and the lock is
\* released.
InvDelete(t) ==
    /\ cpc[t] = "inv_delete"
    /\ \E ok \in BOOLEAN :
          /\ cerr' = [cerr EXCEPT ![t] = @ \/ ~ok]
          /\ IF ok
             THEN /\ redis' = Restrict(redis, DOMAIN redis \ ckeys[t])
                  /\ Returns(t, None)
                  /\ invalidated' =
                        [k \in Keys |->
                           IF IsSubstring(ckey[t], k) THEN TRUE
                           ELSE invalidated[k]]
             ELSE /\ Returns(t, Raised)
                  /\ UNCHANGED <<redis, invalidated>>
    /\ cache_lock' = "free"
    /\ UNCHANGED <<now, circuit_breakers, harnessVars, taskVars, gatewayVars, frontVars,
                   local_cache,
                   max_local_cache_size, lock_waiters, cop, ckey, cval, cnow,
                   ckeys, covered, setat>>

\* The caller has its answer; the task is free for the next call.
CacheFinish(t) ==
    /\ cpc[t] = "done"
    /\ cpc' = [cpc EXCEPT ![t] = "idle"]
    /\ cop' = [cop EXCEPT ![t] = "none"]
    /\ ckey' = [ckey EXCEPT ![t] = <<>>]
    /\ cval' = [cval EXCEPT ![t] = None]
    /\ cnow' = [cnow EXCEPT ![t] = 0]
    /\ ckeys' = [ckeys EXCEPT ![t] = {}]
    /\ cret' = [cret EXCEPT ![t] = None]
    /\ covered' = [covered EXCEPT ![t] = FALSE]
    /\ cerr' = [cerr EXCEPT ![t] = FALSE]
    /\ UNCHANGED <<now, circuit_breakers, harnessVars, taskVars, gatewayVars, frontVars,
                   local_cache,
                   redis, max_local_cache_size, cache_lock, lock_waiters,
                   invalidated, setat>>

TickCache ==
    /\ \E d \in TimeSteps :
          /\ now + d <= MaxNowCache
          /\ now' = now + d
    /\ UNCHANGED <<breakerVars, taskVars, cacheVars, gatewayVars, frontVars>>

InitCache ==
    /\ now = 0
    /\ circuit_breakers = <<>>
    /\ allowed = TRUE
    /\ streak = 0
    /\ probes = 0
    /\ InitTasks
    /\ InitCacheVars
    /\ InitGatewayVars
    /\ InitRouterVars
    /\ InitAuthVars
    /\ InitKeyVars

NextCache ==
    \/ TickCache
    \/ \E t \in CTasks : GetCall(t)
    \/ \E t \in CTasks : SetCall(t)
    \/ \E t \in CTasks : InvCall(t)
    \/ \E t \in CTasks : LockHandover(t)
    \/ \E t \in CTasks : GetRemote(t)
    \/ \E t \in CTasks : GetResume(t)
    \/ \E t \in CTasks : SetRemote(t)
    \/ \E t \in CTasks : InvKeys(t)
    \/ \E t \in CTasks : InvDelete(t)
    \/ \E t \in CTasks : CacheFinish(t)

SpecCache == InitCache /\ [][NextCache]_vars

\* C10: after set(k, v, ttl) and a completed invalidate(prefix) with prefix
\* occurring in k, a get(k) that begins afterwards, with no set(k, ...) made
\* since, returns none.
C10_InvalidatedGetIsNone ==
    \A t \in CTasks :
        (cpc[t] = "done" /\ cop[t] = "get" /\ covered[t]) => cret[t] = None

\* C19: no task holds the cache lock while it waits on a call of the remote
\* store (get, setex, keys, delete).
C19_NoLockAcrossRemote ==
    \A t \in CTasks :
        cpc[t] \in {"get_remote", "set_remote", "inv_keys", "inv_delete"}
        => cache_lock # t

----------------------------------------------------------------------------
(* CacheManager with a small local tier: one caller, a clock that moves in *)
(* steps shorter than local_ttl, and max_local_cache_size of 1 or 2.       *)

TickPrune ==
    /\ \E d \in {5} :
          /\ now + d <= MaxNowPrune
          /\ now' = now + d
    /\ UNCHANGED <<breakerVars, taskVars, cacheVars, gatewayVars, frontVars>>

InitPrune ==
    /\ now = 0
    /\ circuit_breakers = <<>>
    /\ allowed = TRUE
    /\ streak = 0
    /\ probes = 0
    /\ InitTasks
    /\ InitGatewayVars
    /\ InitRouterVars
    /\ InitAuthVars
    /\ InitKeyVars
    /\ local_cache = <<>>
    /\ redis = <<>>
    /\ max_local_cache_size \in {1, 2}
    /\ cache_lock = "free"
    /\ lock_waiters = <<>>
    /\ cpc = [t \in CTasks |-> "idle"]
    /\ cop = [t \in CTasks |-> "none"]
    /\ ckey = [t \in CTasks |-> <<>>]
    /\ cval = [t \in CTasks |-> None]
    /\ cnow = [t \in CTasks |-> 0]
    /\ ckeys = [t \in CTasks |-> {}]
    /\ cret = [t \in CTasks |-> None]
    /\ invalidated = [k \in Keys |-> FALSE]
    /\ setat = <<>>
    /\ covered = [t \in CTasks |-> FALSE]
    /\ cerr = [t \in CTasks |-> FALSE]

NextPrune ==
    \/ TickPrune
    \/ GetCall("c1")
    \/ SetCall("c1")
    \/ GetRemote("c1")
    \/ GetResume("c1")
    \/ SetRemote("c1")
    \/ CacheFinish("c1")

SpecPrune == InitPrune /\ [][NextPrune]_vars

\* The step in which task t, in set or in get after a remote hit, inserts
\* its entry and prunes.
PruneStep(t) ==
    \/ cpc[t] # "set_remote" /\ cpc'[t] = "set_remote"
    \/ cpc[t] = "get_reply" /\ cpc'[t] = "done"

\* The expiry the entry of key k has when the prune of task t begins.
ExpiryAtPrune(t, k) ==
    IF k = ckey'[t]
    THEN IF cop'[t] = "set" THEN now + Min(CacheTTL, LocalTTL)
         ELSE cnow[t] + LocalTTL
    ELSE local_cache[k].expiry

\* C23: after the prune of a set or of a remote-hit get the local tier holds
\* at most max_local_cache_size entries and none whose expiry is at or
\* before the time of the prune, and every entry evicted without being
\* expired has an expiry no later than that of every entry kept.
C23_PruneLeaves ==
    [][\A t \in CTasks :
          PruneStep(t)
          => LET before == DOMAIN local_cache \cup {ckey'[t]}
                 kept == DOMAIN local_cache' IN
             /\ Cardinality(kept) <= max_local_cache_size
             /\ kept \subseteq before
             /\ \A k \in kept : local_cache'[k].expiry > now
             /\ \A e \in before \ kept :
                   ExpiryAtPrune(t, e) > now
                   => \A k \in kept :
                         ExpiryAtPrune(t, e) <= local_cache'[k].expiry
      ]_vars

\* With room for one entry, the set of Key2 at time 5 has evicted the entry
\* of Key1, which had not expired.
C23_Witness ==
    /\ max_local_cache_size = 1
    /\ now = 5
    /\ cpc["c1"] = "done"
    /\ cop["c1"] = "set"
    /\ ckey["c1"] = Key2
    /\ Key1 \in DOMAIN redis
    /\ DOMAIN local_cache = {Key2}

----------------------------------------------------------------------------
(* CacheManager over the life of one value: one caller, one key, and a     *)
(* clock that can jump close to the remote ttl and then move in steps      *)
(* shorter than local_ttl.  setat watches the key: it holds the time of    *)
(* the latest write of a set (0 until the first one).                      *)

TickLife ==
    /\ \E d \in {3, 54} :
          /\ now + d <= MaxNowLife
          /\ now' = now + d
    /\ UNCHANGED <<breakerVars, taskVars, cacheVars, gatewayVars, frontVars>>

InitLife ==
    /\ now = 0
    /\ circuit_breakers = <<>>
    /\ allowed = TRUE
    /\ streak = 0
    /\ probes = 0
    /\ InitTasks
    /\ InitGatewayVars
    /\ InitRouterVars
    /\ InitAuthVars
    /\ InitKeyVars
    /\ local_cache = <<>>
    /\ redis = <<>>
    /\ max_local_cache_size = DefaultMaxLocalCacheSize
    /\ cache_lock = "free"
    /\ lock_waiters = <<>>
    /\ cpc = [t \in CTasks |-> "idle"]
    /\ cop = [t \in CTasks |-> "none"]
    /\ ckey = [t \in CTasks |-> <<>>]
    /\ cval = [t \in CTasks |-> None]
    /\ cnow = [t \in CTasks |-> 0]
    /\ ckeys = [t \in CTasks |-> {}]
    /\ cret = [t \in CTasks |-> None]
    /\ invalidated = [k \in Keys |-> FALSE]
    /\ setat = [k \in {Key1} |-> 0]
    /\ covered = [t \in CTasks |-> FALSE]
    /\ cerr = [t \in CTasks |-> FALSE]

NextLife ==
    \/ TickLife
    \/ GetCall("c1") /\ ckey'["c1"] = Key1
    \/ SetCall("c1") /\ ckey'["c1"] = Key1
    \/ GetRemote("c1")
    \/ GetResume("c1")
    \/ SetRemote("c1")
    \/ CacheFinish("c1")

SpecLife == InitLife /\ [][NextLife]_vars

\* C28: a get that returns a value was called (and so returns) no later
\* than ttl after the latest set of its key: re-populating the local tier
\* from a remote hit does not extend a value's life.  cnow is the time the
\* get read the clock at its start, so a slow reply is not held against it.
C28_NoLifeBeyondTtl ==
    [][\A t \in CTasks :
          (/\ cpc[t] # "done"
           /\ cpc'[t] = "done"
           /\ cop'[t] = "get"
           /\ cret'[t].some)
          => cnow'[t] <= setat'[ckey'[t]] + CacheTTL
      ]_vars

----------------------------------------------------------------------------
(* proxy_request, line 72, for two GET requests.                           *)

KeyDerive ==
    /\ kkeys = <<>>
    /\ kkeys' = <<cache_key(kreq[1][1], kreq[1][2]),
                  cache_key(kreq[2][1], kreq[2][2])>>
    /\ UNCHANGED <<now, breakerVars, taskVars, cacheVars, gatewayVars,
                   routerVars, authVars, kreq>>

\* The next pair of requests.
KeyNext ==
    /\ kkeys # <<>>
    /\ kkeys' = <<>>
    /\ kreq' \in KeyRequests \X KeyRequests
    /\ UNCHANGED <<now, breakerVars, taskVars, cacheVars, gatewayVars,
                   routerVars, authVars>>

InitKey ==
    /\ now = 0
    /\ circuit_breakers = <<>>
    /\ allowed = TRUE
    /\ streak = 0
    /\ probes = 0
    /\ InitTasks
    /\ InitCacheVars
    /\ InitGatewayVars
    /\ InitRouterVars
    /\ token_cache = <<>>
    /\ areq = NoAuthRequest
    /\ aresp = NoAuthResponse
    /\ kreq \in KeyRequests \X KeyRequests
    /\ kkeys = <<>>

NextKey == KeyDerive \/ KeyNext

SpecKey == InitKey /\ [][NextKey]_vars

\* C27: two GET requests that differ in path or in query string get
\* different cache keys.
C27_KeyInjective ==
    (kkeys # <<>> /\ kreq[1] # kreq[2]) => kkeys[1] # kkeys[2]

----------------------------------------------------------------------------
(* The gateway handlers of routes.py with process_request and              *)
(* proxy_request: one request at a time on the tasks GwClient and GwCache, *)
(* and the invalidate_cache task the handler creates on BgCache.           *)

GwClient == "t1"
GwCache == "c1"
BgCache == "c2"

\* self.routes, loaded by __init__ (line 19)
Routes == load_routes(RoutesYml)

\* proxy_request, lines 88-93: request() is called for req with url and its
\* default retries, and runs to its first await.
CallRequest(req, url) ==
    LET h == service_base(url) IN
    /\ greq' = [req EXCEPT !.url = url]
    /\ host' = [host EXCEPT ![GwClient] = h]
    /\ retries' = [retries EXCEPT ![GwClient] = DefaultRetries]
    /\ LoopTop(GwClient, h, get_circuit_breaker(circuit_breakers, h), 0)
    /\ UNCHANGED seen

\* The handler returns resp to the client.
Reply(resp) ==
    /\ gresp' = resp
    /\ gpc' = "done"

\* Observer: the paths p and r have the same first segment.
SameFirstSegment(p, r) ==
    \E n \in 2..Min(Len(p), Len(r)) :
        /\ SubSeq(p, 1, n) = SubSeq(r, 1, n)
        /\ \A j \in 2..n : p[j] # "/"
        /\ n = Len(p) \/ p[n + 1] = "/"
        /\ n = Len(r) \/ r[n + 1] = "/"

\* routes.py, lines 58, 71, 84, 97: asyncio.create_task(invalidate_cache(
\* full_path)) once the response is produced.
ScheduleInvalidate(req) ==
    LET seg == first_segment(full_path_of(req.path)) IN
    /\ cpc' = [cpc EXCEPT ![BgCache] = "scheduled"]
    /\ cop' = [cop EXCEPT ![BgCache] = "invalidate"]
    /\ ckey' = [ckey EXCEPT ![BgCache] = seg]
    /\ answered' = [i \in RequestIds |-> NoAnswer]
    /\ swept' = [i \in RequestIds |->
                    IF answered[i] # NoAnswer /\ SameFirstSegment(i[1], req.path)
                    THEN "pending" ELSE swept[i]]

\* Observer: a request that begins while an invalidation task is pending
\* makes that invalidation one that did not run alone.
Spoil(quiet) ==
    [i \in RequestIds |->
        IF ~quiet /\ swept[i] = "pending" THEN "no" ELSE swept[i]]

\* A cache call of the request has returned: its task slot is free again.
ReleaseSlot(t) ==
    /\ cpc' = [cpc EXCEPT ![t] = "idle"]
    /\ cop' = [cop EXCEPT ![t] = "none"]
    /\ ckey' = [ckey EXCEPT ![t] = <<>>]
    /\ cval' = [cval EXCEPT ![t] = None]
    /\ cnow' = [cnow EXCEPT ![t] = 0]
    /\ cret' = [cret EXCEPT ![t] = None]

\* gateway_get / gateway_post with process_request (lines 115-145) and
\* proxy_request (lines 61-88) up to the first await: no route returns
\* return_not_found's dict; a GET calls cache.get; another method calls
\* request().
GatewayRequest ==
    /\ gpc = "idle"
    /\ \E r \in Requests :
          LET m == r[1]
              p == r[2]
              q == r[3]
              req == [method |-> m, path |-> p, query |-> q,
                      after |-> swept[<<p, q>>], was |-> answered[<<p, q>>],
                      quiet |-> cpc[BgCache] = "idle", url |-> <<>>]
              url == service_url(Routes, full_path_of(p))
              k == cache_key(p, q) IN
          /\ m # "GET" => cpc[BgCache] = "idle"
          /\ \/ /\ url = NoRoute
                /\ greq' = req
                /\ Reply(DictResponse(return_not_found))
                /\ IF m = "GET"
                   THEN /\ swept' = Spoil(req.quiet)
                        /\ UNCHANGED <<cpc, cop, ckey, answered>>
                   ELSE ScheduleInvalidate(req)
                /\ UNCHANGED <<circuit_breakers, taskVars, lock_waiters,
                               cnow, cret>>
             \/ /\ url # NoRoute
                /\ m = "GET"
                /\ greq' = req
                /\ gpc' = "cache_get"
                /\ cop' = [cop EXCEPT ![GwCache] = "get"]
                /\ ckey' = [ckey EXCEPT ![GwCache] = k]
                /\ IF LockFree
                   THEN GetLocal(GwCache, k) /\ UNCHANGED lock_waiters
                   ELSE /\ lock_waiters' = Append(lock_waiters, GwCache)
                        /\ cpc' = [cpc EXCEPT ![GwCache] = "get_wait"]
                        /\ UNCHANGED <<cnow, cret>>
                /\ swept' = Spoil(req.quiet)
                /\ UNCHANGED <<circuit_breakers, taskVars, gresp, answered>>
             \/ /\ url # NoRoute
                /\ m # "GET"
                /\ gpc' = "forward"
                /\ CallRequest(req, req_url(url, p))
                /\ UNCHANGED <<gresp, answered, swept, lock_waiters, cpc,
                               cop, ckey, cnow, cret>>
    /\ UNCHANGED <<now, frontVars, harnessVars, local_cache, redis, max_local_cache_size,
                   cache_lock, cval, ckeys, invalidated, setat, covered, cerr,
                   gbody, gtime>>

\* proxy_request, lines 76-88: cache.get has returned cached_response; a
\* value that is true in "if cached_response:" is the response, otherwise
\* request() is called.
ProxyAfterGet ==
    /\ gpc = "cache_get"
    /\ cpc[GwCache] = "done"
    /\ LET cached_response == cret[GwCache]
           url == service_url(Routes, full_path_of(greq.path)) IN
       IF cached_response.some /\ Truthy(cached_response.data)
       THEN /\ Reply(JSONResponse(cached_response.data))
            /\ UNCHANGED <<circuit_breakers, taskVars, greq>>
       ELSE /\ gpc' = "forward"
            /\ CallRequest(greq, req_url(url, greq.path))
            /\ UNCHANGED gresp
    /\ ReleaseSlot(GwCache)
    /\ UNCHANGED <<now, frontVars, harnessVars, local_cache, redis, max_local_cache_size,
                   cache_lock, lock_waiters, ckeys, invalidated, setat, covered,
                   cerr, gbody, gtime, answered, swept>>

\* The condition of line 96 without its status test: every response to a
\* GET is offered to the cache.
should_cache_any_status(req_method, response) ==
    /\ response.kind = "response"
    /\ req_method = "GET"

\* proxy_request, line 96: req_method == "GET" and response.status_code ==
\* 200, for a request() that returned a response.
should_cache(req_method, response) ==
    /\ response.kind = "response"
    /\ req_method = "GET"
    /\ response.status = 200

\* proxy_request, lines 88-110, and process_request, lines 147-149:
\* request() has ended.  An exception becomes return_error's dict; a GET
\* answered 200 with a JSON body calls cache.set (line 99); every other
\* response is streamed through.
ProxyAfterRequest ==
    /\ gpc = "forward"
    /\ pc[GwClient] = "done"
    /\ LET response == result[GwClient]
           k == cache_key(greq.path, greq.query) IN
       \E content \in Bodies :
          IF /\ should_cache(greq.method, response)
             /\ content \in JsonBodies
          THEN /\ gpc' = "cache_set"
               /\ gbody' = content
               /\ gtime' = now
               /\ swept' = [swept EXCEPT ![<<greq.path, greq.query>>] = "no"]
               /\ cop' = [cop EXCEPT ![GwCache] = "set"]
               /\ ckey' = [ckey EXCEPT ![GwCache] = k]
               /\ cval' = [cval EXCEPT ![GwCache] = Some(content)]
               /\ IF LockFree
                  THEN SetLocal(GwCache, k, content) /\ UNCHANGED lock_waiters
                  ELSE /\ lock_waiters' = Append(lock_waiters, GwCache)
                       /\ cpc' = [cpc EXCEPT ![GwCache] = "set_wait"]
                       /\ UNCHANGED <<local_cache, cache_lock, invalidated, setat,
                                      covered>>
               /\ UNCHANGED <<gresp, answered>>
          ELSE /\ Reply(IF response.kind = "response"
                        THEN StreamingResponse(response.status, content)
                        ELSE DictResponse(return_error(response.detail)))
               /\ IF greq.method = "GET"
                  THEN /\ answered' = [answered EXCEPT
                                          ![<<greq.path, greq.query>>] = NoAnswer]
                       /\ UNCHANGED <<cpc, cop, ckey, swept>>
                  ELSE ScheduleInvalidate(greq)
               /\ UNCHANGED <<gbody, gtime, cval, local_cache, cache_lock,
                              lock_waiters, invalidated, setat, covered>>
    /\ UNCHANGED <<now, frontVars, breakerVars, taskVars, redis, max_local_cache_size,
                   cnow, ckeys, cret, cerr, greq>>

\* ProxyAfterSet without the except clause of line 101: an exception of
\* cache.set reaches process_request and becomes return_error's dict.
ProxyAfterSet_no_except ==
    /\ gpc = "cache_set"
    /\ cpc[GwCache] = "done"
    /\ Reply(IF cret[GwCache].data = "raised"
             THEN DictResponse(return_error("cache error"))
             ELSE JSONResponse(gbody))
    /\ ReleaseSlot(GwCache)
    /\ answered' =
          [answered EXCEPT ![<<greq.path, greq.query>>] =
              IF cret[GwCache].data # "raised" /\ ~cerr[GwCache]
                 /\ greq.quiet
              THEN [body |-> gbody, at |-> gtime] ELSE NoAnswer]
    /\ UNCHANGED <<now, frontVars, breakerVars, taskVars, local_cache, redis,
                   max_local_cache_size, cache_lock, lock_waiters, ckeys,
                   invalidated, setat, covered, cerr, greq, gbody, gtime, swept>>

\* proxy_request, lines 99-110: cache.set has returned, or has raised and
\* the except clause of line 101 falls through to the streaming response.
ProxyAfterSet ==
    /\ gpc = "cache_set"
    /\ cpc[GwCache] = "done"
    /\ Reply(IF cret[GwCache].data = "raised"
             THEN StreamingResponse(200, gbody)
             ELSE JSONResponse(gbody))
    /\ ReleaseSlot(GwCache)
    /\ answered' =
          [answered EXCEPT ![<<greq.path, greq.query>>] =
              IF cret[GwCache].data # "raised" /\ ~cerr[GwCache]
                 /\ greq.quiet
              THEN [body |-> gbody, at |-> gtime] ELSE NoAnswer]
    /\ UNCHANGED <<now, frontVars, breakerVars, taskVars, local_cache, redis,
                   max_local_cache_size, cache_lock, lock_waiters, ckeys,
                   invalidated, setat, covered, cerr, greq, gbody, gtime, swept>>

\* The client has its response; the tasks are free for the next request.
GatewayFinish ==
    /\ gpc = "done"
    /\ gpc' = "idle"
    /\ greq' = NoRequest
    /\ gresp' = NoResp
    /\ gbody' = "none"
    /\ gtime' = 0
    /\ pc' = [pc EXCEPT ![GwClient] = "idle"]
    /\ retries' = [retries EXCEPT ![GwClient] = 0]
    /\ attempt' = [attempt EXCEPT ![GwClient] = 0]
    /\ sent' = [sent EXCEPT ![GwClient] = 0]
    /\ seen' = [seen EXCEPT ![GwClient] = "none"]
    /\ probe' = [probe EXCEPT ![GwClient] = "none"]
    /\ result' = [result EXCEPT ![GwClient] = NoResult]
    /\ client' = [client EXCEPT ![GwClient] = NoClient]
    /\ cerr' = [cerr EXCEPT ![GwCache] = FALSE]
    /\ UNCHANGED <<now, frontVars, breakerVars, host, wake, local_cache, redis,
                   max_local_cache_size, cache_lock, lock_waiters, cpc, cop,
                   ckey, cval, cnow, ckeys, cret, invalidated, setat, covered,
                   answered, swept>>

\* The task created by the handler starts: invalidate_cache (lines
\* 159-162) calls cache.invalidate(base_path).
InvalidateTask ==
    /\ cpc[BgCache] = "scheduled"
    /\ IF LockFree
       THEN InvLocal(BgCache, ckey[BgCache]) /\ UNCHANGED lock_waiters
       ELSE /\ lock_waiters' = Append(lock_waiters, BgCache)
            /\ cpc' = [cpc EXCEPT ![BgCache] = "inv_wait"]
            /\ UNCHANGED <<local_cache, cache_lock>>
    /\ UNCHANGED <<now, breakerVars, taskVars, gatewayVars, frontVars, redis,
                   max_local_cache_size, cop, ckey, cval, cnow, ckeys, cret,
                   invalidated, setat, covered, cerr>>

\* The task ends, by return or by the exception of a remote-store call.
InvalidateEnds ==
    /\ cpc[BgCache] = "done"
    /\ cop[BgCache] = "invalidate"
    /\ swept' = [i \in RequestIds |->
                    IF swept[i] = "pending"
                    THEN IF cerr[BgCache] THEN "failed" ELSE "ok"
                    ELSE swept[i]]
    /\ cpc' = [cpc EXCEPT ![BgCache] = "idle"]
    /\ cop' = [cop EXCEPT ![BgCache] = "none"]
    /\ ckey' = [ckey EXCEPT ![BgCache] = <<>>]
    /\ ckeys' = [ckeys EXCEPT ![BgCache] = {}]
    /\ cret' = [cret EXCEPT ![BgCache] = None]
    /\ cerr' = [cerr EXCEPT ![BgCache] = FALSE]
    /\ UNCHANGED <<now, frontVars, breakerVars, taskVars, local_cache, redis,
                   max_local_cache_size, cache_lock, lock_waiters, cval, cnow,
                   invalidated, setat, covered, greq, gpc, gbody, gtime, gresp,
                   answered>>

TickGateway ==
    /\ \E d \in TimeSteps :
          /\ now + d <= MaxNowGateway
          /\ now' = now + d
    /\ UNCHANGED <<breakerVars, taskVars, cacheVars, gatewayVars, frontVars>>

InitGateway ==
    /\ now = 0
    /\ circuit_breakers = <<>>
    /\ allowed = TRUE
    /\ streak = 0
    /\ probes = 0
    /\ InitTasks
    /\ InitCacheVars
    /\ InitGatewayVars
    /\ InitRouterVars
    /\ InitAuthVars
    /\ InitKeyVars

NextGateway ==
    \/ TickGateway
    \/ GatewayRequest
    \/ ProxyAfterGet
    \/ ProxyAfterRequest
    \/ ProxyAfterSet
    \/ GatewayFinish
    \/ InvalidateTask
    \/ InvalidateEnds
    \/ \E t \in CTasks : LockHandover(t)
    \/ GetRemote(GwCache)
    \/ GetResume(GwCache)
    \/ SetRemote(GwCache)
    \/ InvKeys(BgCache)
    \/ InvDelete(BgCache)
    \/ Respond(GwClient)
    \/ Wake(GwClient)

SpecGateway == InitGateway /\ [][NextGateway]_vars

----------------------------------------------------------------------------
(* Properties of the gateway handlers *)

\* C11: after a GET for a routed path was answered by the upstream with 200
\* and a JSON body, a second GET for the same path and query within
\* CACHE_TTL, with no invalidation in between and no failure of a
\* remote-store call, returns that body with status 200 and request() is
\* not called.
C11_SecondGetFromCache ==
    (gpc = "done" /\ greq.method = "GET")
    => LET was == greq.was IN
       (was # NoAnswer /\ now < was.at + CacheTTL /\ ~cerr[GwCache])
       => /\ gresp = JSONResponse(was.body)
          /\ pc[GwClient] = "idle"

\* The request was handed to request(), which has ended.
Forwarded == pc[GwClient] = "done"

C14_NoRouteIs404 ==
    (gpc = "done" /\ service_url(Routes, full_path_of(greq.path)) = NoRoute)
    => /\ gresp.http = 404
       /\ gresp.status = 404
       /\ gresp.message = "No route found"
       /\ sent[GwClient] = 0

\* The query string of a URL: what follows its first "?".
RECURSIVE QueryOf(_)
QueryOf(url) ==
    IF url = <<>> THEN <<>>
    ELSE IF Head(url) = "?" THEN Tail(url) ELSE QueryOf(Tail(url))

\* A URL without its query string.
RECURSIVE BeforeQuery(_)
BeforeQuery(url) ==
    IF url = <<>> \/ Head(url) = "?" THEN <<>>
    ELSE <<Head(url)>> \o BeforeQuery(Tail(url))

\* C17: the URL the proxy sends to the upstream is the upstream base
\* followed by the request path and carries the client's query string
\* unchanged.
C17_QueryForwarded ==
    greq.url # <<>>
    => /\ BeforeQuery(greq.url) =
            service_url(Routes, full_path_of(greq.path)) \o greq.path
       /\ QueryOf(greq.url) = greq.query

\* C20: for a GET answered by the upstream with 200 and a JSON body the
\* cache set runs in the background: while the set is still under way
\* (waiting for the lock or for the remote store), the client already has
\* its response.
C20_SetInBackground ==
    (cop[GwCache] = "set" /\ cpc[GwCache] # "done") => gresp # NoResp

\* The entry of key k differs in c2 from what c had.
Written(c, c2, k) == k \in DOMAIN c2 /\ (k \notin DOMAIN c \/ c2[k] # c[k])

\* The request in hand is a GET with key k whose upstream response had
\* status 200, and d is a JSON body.
FromGet200(k, d) ==
    /\ greq.method = "GET"
    /\ k = cache_key(greq.path, greq.query)
    /\ pc[GwClient] = "done"
    /\ result[GwClient] = Response(200)
    /\ d \in JsonBodies

\* C24: every entry written to the remote tier is the JSON body of a 200
\* response to the GET in hand, under that GET's key, and every entry
\* written to the local tier is that or the copy of the remote entry the
\* get in hand has fetched; so both tiers hold JSON bodies only, and
\* nothing of another method, of another status or of a gateway-made
\* error is stored.
C24_OnlyGet200Cached ==
    /\ [][\A k \in DOMAIN local_cache' \cup DOMAIN redis' :
             /\ Written(redis, redis', k)
                => FromGet200(k, loads(redis'[k].data))
             /\ Written(local_cache, local_cache', k)
                => \/ FromGet200(k, local_cache'[k].data)
                   \/ /\ cop[GwCache] = "get"
                      /\ k = ckey[GwCache]
                      /\ cval[GwCache].some
                      /\ local_cache'[k].data = loads(cval[GwCache].data)
         ]_vars
    /\ [](/\ \A k \in DOMAIN local_cache : local_cache[k].data \in JsonBodies
          /\ \A k \in DOMAIN redis : loads(redis[k].data) \in JsonBodies)

\* A GET that the upstream answered 404 or 500 has been streamed through
\* and neither tier holds an entry.
C24_Witness ==
    /\ gpc = "done"
    /\ greq.method = "GET"
    /\ pc[GwClient] = "done"
    /\ result[GwClient] \in {Response(404), Response(500)}
    /\ gresp.kind = "StreamingResponse"
    /\ local_cache = <<>>
    /\ redis = <<>>

\* C21: cache errors are not fatal to a request.  A cache get whose
\* remote-store call failed returns none; and a GET that the upstream
\* answered gives the client the upstream's status and body, whether or not
\* a call of the remote store failed on the way (a failed invalidation runs
\* in its own task, after the response).
C21_CacheErrorsNotFatal ==
    /\ (gpc = "cache_get" /\ cpc[GwCache] = "done" /\ cerr[GwCache])
       => ~cret[GwCache].some
    /\ (/\ gpc = "done"
        /\ greq.method = "GET"
        /\ pc[GwClient] = "done"
        /\ result[GwClient].kind = "response")
       => /\ gresp.kind \in {"JSONResponse", "StreamingResponse"}
          /\ gresp.http = result[GwClient].status
          /\ gbody # "none" => gresp.body = gbody

\* The remote store failed on setex, and the client has the upstream's 200
\* and body all the same.
C21_Witness ==
    /\ gpc = "done"
    /\ greq.method = "GET"
    /\ cerr[GwCache]
    /\ gbody \in JsonBodies
    /\ gresp = StreamingResponse(200, gbody)

----------------------------------------------------------------------------
(* The matcher of process_request on any routes file and any path *)

\* process_request, lines 115-136, on the routes _load_routes made of the
\* file: service_url after the loop.
RouterMatch ==
    /\ ~rres.done
    /\ \E p \in RouterPaths :
          /\ rreq' = [path |-> p]
          /\ rres' = [done |-> TRUE,
                      service_url |->
                          service_url(load_routes(rconfig), full_path_of(p))]
    /\ UNCHANGED <<now, breakerVars, taskVars, cacheVars, gatewayVars,
                   authVars, keyVars, rconfig>>

\* The next request is matched afresh.
RouterReset ==
    /\ rres.done
    /\ rreq' = NoRouterRequest
    /\ rres' = NoRouterResult
    /\ UNCHANGED <<now, breakerVars, taskVars, cacheVars, gatewayVars,
                   authVars, keyVars, rconfig>>

InitRouter ==
    /\ now = 0
    /\ circuit_breakers = <<>>
    /\ allowed = TRUE
    /\ streak = 0
    /\ probes = 0
    /\ InitTasks
    /\ InitCacheVars
    /\ InitGatewayVars
    /\ InitAuthVars
    /\ InitKeyVars
    /\ rconfig \in RouteTables
    /\ rreq = NoRouterRequest
    /\ rres = NoRouterResult

NextRouter == RouterMatch \/ RouterReset

SpecRouter == InitRouter /\ [][NextRouter]_vars

\* The upstream of a route of the file: its uri, with the scheme it is given
\* when it has none.
Upstream(route) == load_route(route).uri

\* The routes of the file of which some predicate, normalized by norm and
\* admitted by counts, is a prefix of the path without its leading slash.
Hits(norm(_), counts(_)) ==
    {i \in DOMAIN rconfig :
        \E j \in DOMAIN rconfig[i].predicates :
            LET predicate == rconfig[i].predicates[j] IN
            /\ counts(predicate)
            /\ StartsWith(Tail(rreq.path), norm(predicate))}

\* The matcher returned the upstream of the first of the routes hits, or no
\* match when there is none.
FirstOf(hits) ==
    IF hits = {} THEN rres.service_url = NoRoute
    ELSE rres.service_url =
            Upstream(rconfig[CHOOSE i \in hits : \A k \in hits : i <= k])

MarkerRemoved(predicate) ==
    IF HasPathMarker(predicate) THEN Tail(predicate) ELSE predicate
SlashesTrimmed(predicate) == Strip(MarkerRemoved(predicate), {"/"})
AnyPredicate(predicate) == TRUE
WhitespaceAndSlashesTrimmed(predicate) ==
    Strip(Strip(MarkerRemoved(predicate), Whitespace), {"/"})

\* C13 as stated: the matcher returns the upstream of the first route in
\* declaration order that has a predicate whose normalized value (Path=
\* removed if present, leading and trailing slashes trimmed) is a prefix of
\* the path without its leading slash, and no match when there is no such
\* route.
C13_FirstMatch == rres.done => FirstOf(Hits(SlashesTrimmed, AnyPredicate))

\* C13, amended: only predicates that carry the Path= marker count, and
\* their value is trimmed of surrounding whitespace before the slashes are
\* trimmed; the matcher returns the upstream of the first route in
\* declaration order that has such a predicate whose normalized value is a
\* prefix of the path without its leading slash, and no match otherwise.
C13_FirstMarkedMatch ==
    rres.done => FirstOf(Hits(WhitespaceAndSlashesTrimmed, HasPathMarker))

\* Routes [A with /x, B with /x/y]: /x/y/z resolved to A.
C13_Witness ==
    /\ rres.done
    /\ Len(rconfig) = 2
    /\ rconfig[1].predicates = << <<"Path=", "/", "x">> >>
    /\ rconfig[2].predicates = << <<"Path=", "/", "x", "/", "y">> >>
    /\ rreq.path = <<"/", "x", "/", "y", "/", "z">>
    /\ rres.service_url = Upstream(rconfig[1])

----------------------------------------------------------------------------
(* A request on its way through the application's router, the auth         *)
(* dependency of the gateway routes and the token cache.  What             *)
(* process_request then does with it is the subject of SpecGateway.        *)

\* The breaker of a host after three failures in a row at time 0.
OpenedBreaker ==
    record_failure(record_failure(record_failure(
        CircuitBreaker(DefaultResetTimeout), 0), 0), 0)

\* AdminController.reset_circuit_breaker (admin.py, lines 9-20): the breaker
\* map after the call (hosts are one token long).
reset_circuit_breaker(cbs, service_name) ==
    [b \in DOMAIN cbs |->
        IF b = service_name THEN record_success(cbs[b]) ELSE cbs[b]]

\* A request arrives: the router picks its route, the auth dependency of a
\* gateway route runs authenticate_user, and the handler's body follows if
\* no HTTPException was raised.
AuthRequest ==
    /\ areq = NoAuthRequest
    /\ \E m \in AuthMethods, p \in AuthPaths, hd \in Headers :
          LET route == Dispatch(m, p)
              auth == authenticate_user(p, hd, token_cache, now)
              token == bearer_token(hd)
              asked == /\ StartsWith(hd, <<"Bearer", " ">>)
                       /\ ~\E sp \in skip_paths :
                              StartsWith(Strip(p, {"/"}), sp)
              entry == IF route.auth /\ asked /\ token \in DOMAIN token_cache
                       THEN token_cache[token] ELSE NoEntry
              resp == [NoAuthResponse EXCEPT !.handler = route.handler,
                                             !.entry = entry] IN
          /\ areq' = [method |-> m, path |-> p, header |-> hd]
          /\ IF route = NoAppRoute
             THEN /\ aresp' = [resp EXCEPT !.status = 404,
                                           !.detail = "Not Found"]
                  /\ UNCHANGED <<token_cache, circuit_breakers>>
             ELSE IF route.auth /\ ~auth.ok
             THEN /\ aresp' = [resp EXCEPT !.status = auth.status,
                                           !.detail = auth.detail]
                  /\ token_cache' = auth.cache
                  /\ UNCHANGED circuit_breakers
             ELSE IF route.handler = "reset_circuit"
             THEN /\ IF p[6] \in DOMAIN circuit_breakers
                     THEN /\ circuit_breakers' =
                                reset_circuit_breaker(circuit_breakers, p[6])
                          /\ aresp' = [resp EXCEPT !.status = 200,
                                                   !.entered = TRUE]
                     ELSE /\ aresp' = [resp EXCEPT
                                          !.status = 404,
                                          !.detail = "No circuit found",
                                          !.entered = TRUE]
                          /\ UNCHANGED circuit_breakers
                  /\ UNCHANGED token_cache
             ELSE /\ aresp' = [resp EXCEPT !.entered = TRUE,
                                           !.hit = route.auth /\ auth.hit]
                  /\ token_cache' = IF route.auth THEN auth.cache
                                    ELSE token_cache
                  /\ UNCHANGED circuit_breakers
    /\ UNCHANGED <<now, harnessVars, taskVars, cacheVars, gatewayVars,
                   routerVars, keyVars>>

\* The response has gone out.
AuthFinish ==
    /\ areq # NoAuthRequest
    /\ areq' = NoAuthRequest
    /\ aresp' = NoAuthResponse
    /\ UNCHANGED <<now, breakerVars, taskVars, cacheVars, gatewayVars,
                   routerVars, keyVars, token_cache>>

\* Time passes between two requests.
TickAuth ==
    /\ areq = NoAuthRequest
    /\ \E d \in TimeSteps :
          /\ now + d <= MaxNowAuth
          /\ now' = now + d
    /\ UNCHANGED <<breakerVars, taskVars, cacheVars, gatewayVars, frontVars>>

InitAuth ==
    /\ now = 0
    /\ circuit_breakers = [h \in Hosts |-> OpenedBreaker]
    /\ allowed = TRUE
    /\ streak = 0
    /\ probes = 0
    /\ InitTasks
    /\ InitCacheVars
    /\ InitGatewayVars
    /\ InitRouterVars
    /\ InitAuthVars
    /\ InitKeyVars

NextAuth == AuthRequest \/ AuthFinish \/ TickAuth

SpecAuth == InitAuth /\ [][NextAuth]_vars

\* The path starts with login or health, its leading slash aside.
Exempt(path) ==
    \E word \in {"login", "health"} : Len(path) >= 2 /\ path[2] = word

\* The header is "Bearer <token>" with a token that is signed and, if it
\* carries an exp claim, not expired at time t.
ValidBearer(header, t) ==
    \E token \in Tokens :
        /\ header = <<"Bearer", " ">> \o token
        /\ Signed(token)
        /\ "exp" \in DOMAIN Payload(token) => Payload(token).exp > t

\* C15: a request whose path does not start with login or health is
\* rejected with 401 unless it carries an Authorization: Bearer <token>
\* header whose token validates; without such a header the handler's body
\* is never entered, so no upstream is reached, and neither the cache nor
\* the circuit breakers change.  A request whose path starts with login or
\* health is processed without an Authorization header.
C15_AuthGate ==
    [][(areq = NoAuthRequest /\ areq' # NoAuthRequest) =>
        /\ (~Exempt(areq'.path) /\ ~ValidBearer(areq'.header, now))
           => /\ aresp'.status = 401
              /\ ~aresp'.entered
              /\ UNCHANGED <<circuit_breakers, local_cache, redis, sent>>
        /\ (Exempt(areq'.path) /\ areq'.header = NoHeader)
           => aresp'.entered /\ aresp'.status # 401
      ]_vars

\* POST /admin/reset-circuit/u without a header was rejected with 401 and the
\* open breaker of u is as it was.
C15_Witness ==
    /\ areq.method = "POST"
    /\ areq.path = <<"/", "admin", "/", "reset-circuit", "/", "u">>
    /\ areq.header = NoHeader
    /\ aresp.status = 401
    /\ ~aresp.entered
    /\ circuit_breakers["u"].status = "open"

\* C16 as stated: validate_token never returns claims from an entry whose
\* cached expiry is at or before the current time; a token cached with
\* expiry e is served from the cache only at times t < e, and at any later
\* time it is re-verified and rejected as expired.
C16_NoStaleClaims ==
    aresp.entry # NoEntry
    => /\ aresp.hit => now < aresp.entry.exp
       /\ now >= aresp.entry.exp
          => /\ ~aresp.hit
             /\ aresp.status = 401
             /\ aresp.detail = "Token expired"

\* C16, amended: at such a later time the token is re-verified instead of
\* being returned from the cache, and it is rejected as expired if it
\* carries an exp claim.
C16_NoStaleClaimsExpIfClaimed ==
    aresp.entry # NoEntry
    => /\ aresp.hit => now < aresp.entry.exp
       /\ now >= aresp.entry.exp
          => /\ ~aresp.hit
             /\ "exp" \in DOMAIN aresp.entry.payload
                => aresp.status = 401 /\ aresp.detail = "Token expired"

\* The token with exp = 20, cached before, was presented at its expiry or
\* later, decoded again and rejected.
C16_Witness ==
    /\ aresp.entry # NoEntry
    /\ "exp" \in DOMAIN aresp.entry.payload
    /\ now >= aresp.entry.exp
    /\ ~aresp.hit
    /\ aresp.status = 401
    /\ aresp.detail = "Token expired"

----------------------------------------------------------------------------
(* Properties of request() under concurrent callers *)

Failed(o) == o.kind = "error" \/ o.status >= 500

\* C3: while the breaker is half-open, the trial admitted by the move from
\* open to half-open is in flight and its outcome is not yet recorded; every
\* other caller is then denied, so no attempt in flight was admitted by a
\* should_allow_request() that found the breaker half-open.
C3_OneTrial ==
    \A t \in Tasks : ~(pc[t] = "sending" /\ probe[t] = "half-open")

\* C5: in request(), a response with status >= 500 or a transport error
\* adds exactly one to the failure counter; a response with status < 500
\* adds none, and on a closed breaker leaves every field as it was.
C5_FailureAccounting ==
    [][\A t \in Tasks : \A o \in Outcomes :
          RespondWith(t, o) =>
             LET cb == circuit_breakers[host[t]]
                 cbNext == circuit_breakers'[host[t]] IN
             IF Failed(o)
             THEN cbNext.failures = cb.failures + 1
             ELSE /\ cbNext.failures <= cb.failures
                  /\ cb.status = "closed" => cbNext = cb
      ]_vars

\* C26: the failure counter counts consecutive failures: in request(), a
\* response with status below 500 received while the breaker is closed
\* leaves the counter at 0.
C26_SuccessResetsCounter ==
    [][\A t \in Tasks : \A o \in Outcomes :
          (/\ RespondWith(t, o)
           /\ ~Failed(o)
           /\ circuit_breakers[host[t]].status = "closed")
          => circuit_breakers'[host[t]].failures = 0
      ]_vars

C5_Witness ==
    \E t \in Tasks :
        /\ pc[t] = "done"
        /\ result[t] = Response(404)
        /\ circuit_breakers[host[t]].status = "closed"
        /\ circuit_breakers[host[t]].failures = 2

\* C6: a request denied by the open breaker issues no upstream request and
\* the client receives an HTTP 503 response whose detail says the service
\* is unavailable.
C6_DeniedIs503 ==
    \A t \in Tasks :
        (pc[t] = "done" /\ result[t] = HTTPException(503, "unavailable, will retry")
            /\ attempt[t] = 0)
        => /\ sent[t] = 0
           /\ client[t].http = 503
           /\ client[t].detail = "unavailable, will retry"

\* C7: a request arriving at an open breaker whose window has elapsed is
\* sent to the upstream as the probe; when the probe gets a non-5xx response
\* while the breaker is still half-open, the breaker becomes closed with
\* failures 0, retry_attempt 0 and the baseline window; and a request
\* arriving at a closed breaker is sent to the upstream.
C7_ProbeRecovers ==
    [][\A t \in Tasks :
          /\ \A o \in Outcomes :
                (RespondWith(t, o) /\ ~Failed(o) /\ probe[t] = "open"
                    /\ circuit_breakers[host[t]].status = "half-open")
                => LET cbNext == circuit_breakers'[host[t]] IN
                   /\ cbNext.status = "closed"
                   /\ cbNext.failures = 0
                   /\ cbNext.retry_attempt = 0
                   /\ cbNext.recovery_time = DefaultResetTimeout
          /\ (Start(t) /\ host'[t] \in DOMAIN circuit_breakers
                    /\ circuit_breakers[host'[t]].status = "closed")
                => pc'[t] = "sending" /\ sent'[t] = 1
          /\ (Start(t) /\ host'[t] \in DOMAIN circuit_breakers
                    /\ circuit_breakers[host'[t]].status = "open"
                    /\ now >= circuit_breakers[host'[t]].last_failure
                               + circuit_breakers[host'[t]].recovery_time)
                => /\ pc'[t] = "sending" /\ sent'[t] = 1
                   /\ circuit_breakers'[host'[t]].status = "half-open"
      ]_vars

C7_Witness ==
    \E t, u \in Tasks :
        /\ pc[t] = "done" /\ probe[t] = "open" /\ result[t] = Response(200)
        /\ circuit_breakers[host[t]].status = "closed"
        /\ circuit_breakers[host[t]].failures = 0
        /\ circuit_breakers[host[t]].recovery_time = DefaultResetTimeout
        /\ pc[u] = "sending" /\ probe[u] = "closed" /\ host[u] = host[t]

\* A call that has ended after its last attempt, every attempt having
\* received a 5xx response.
ExhaustedOn5xx(t) ==
    /\ pc[t] = "done"
    /\ seen[t] = "5xx"
    /\ attempt[t] + 1 >= Max(1, retries[t])
    /\ sent[t] = attempt[t] + 1

\* C8 as stated: such a call hands the upstream's own 5xx response on.
C8_PassThrough ==
    \A t \in Tasks :
        ExhaustedOn5xx(t) =>
            result[t].kind = "response" /\ result[t].status >= 500

\* C8 amended: such a call raises a gateway-generated HTTPException, 503 or
\* 502, and never hands the upstream's response on.
C8_GatewayError ==
    \A t \in Tasks :
        ExhaustedOn5xx(t) =>
            /\ result[t].kind = "HTTPException"
            /\ result[t].status \in {502, 503}
            /\ result[t].detail \in {"unavailable after failures",
                                      "unavailable after attempts"}

C8_Witness ==
    \E t \in Tasks :
        /\ ExhaustedOn5xx(t)
        /\ retries[t] = DefaultRetries
        /\ result[t] = HTTPException(503, "unavailable after failures")

\* C9: a call that ends in failure fails with 503 if the breaker is open
\* when it ends and with 502 if it is not, whatever retries is.
C9_OpenIs503 ==
    [][\A t \in Tasks :
          (pc[t] # "done" /\ pc'[t] = "done"
                /\ result'[t].kind = "HTTPException")
          => result'[t].status =
                IF circuit_breakers'[host'[t]].status = "open"
                THEN 503 ELSE 502
      ]_vars

\* C18: with concurrent requests to one host and no admin reset, while the
\* breaker is open with last failure at t0 and window w no upstream request
\* to the host is started before t0 + w, and the breaker leaves open only by
\* should_allow_request()'s move to half-open, which the response of a
\* request that was in flight when the breaker opened does not cause.
C18_OpenOnlyToHalfOpen ==
    [][~AdminReset =>
        \A h \in DOMAIN circuit_breakers :
            LET cb == circuit_breakers[h]
                elapsed == now >= cb.last_failure + cb.recovery_time IN
            cb.status = "open" =>
                /\ \A t \in Tasks :
                      (sent'[t] > sent[t] /\ host'[t] = h) => elapsed
                /\ circuit_breakers'[h].status # "open" =>
                      /\ circuit_breakers'[h].status = "half-open"
                      /\ elapsed
                      /\ \E t \in Tasks : sent'[t] > sent[t]
      ]_vars

----------------------------------------------------------------------------
(* The breaker on its own: any sequence of calls of its methods, as a      *)
(* caller holding the object can make them, with the clock advancing.      *)

InitBreaker ==
    /\ now = 0
    /\ circuit_breakers = get_circuit_breaker(<<>>, "u")
    /\ allowed = TRUE
    /\ streak = 0
    /\ probes = 0
    /\ InitTasks
    /\ InitCacheVars
    /\ InitGatewayVars
    /\ InitRouterVars
    /\ InitAuthVars
    /\ InitKeyVars

TickBreaker ==
    /\ \E d \in TimeSteps :
          /\ now + d <= MaxNowBreaker
          /\ now' = now + d
    /\ UNCHANGED <<breakerVars, taskVars, cacheVars, gatewayVars, frontVars>>

CallRecordSuccess(h) ==
    /\ circuit_breakers' = [circuit_breakers EXCEPT ![h] = record_success(@)]
    /\ streak' = 0
    /\ probes' = 0
    /\ UNCHANGED <<now, allowed, taskVars, cacheVars, gatewayVars, frontVars>>

CallRecordFailure(h) ==
    /\ circuit_breakers[h].failures < MaxFailures
    /\ circuit_breakers' =
          [circuit_breakers EXCEPT ![h] = record_failure(@, now)]
    /\ streak' = IF circuit_breakers[h].status = "closed"
                    /\ circuit_breakers[h].failures = 0
                 THEN 1
                 ELSE IF streak > 0 THEN streak + 1 ELSE 0
    /\ probes' = IF circuit_breakers[h].status = "half-open"
                 THEN probes + 1 ELSE probes
    /\ UNCHANGED <<now, allowed, taskVars, cacheVars, gatewayVars, frontVars>>

CallShouldAllowRequest(h) ==
    /\ LET r == should_allow_request(circuit_breakers[h], now) IN
          /\ r.cb.retry_attempt <= MaxRetryAttempt
          /\ circuit_breakers' = [circuit_breakers EXCEPT ![h] = r.cb]
          /\ allowed' = r.ret
    /\ streak' = 0
    /\ UNCHANGED probes
    /\ UNCHANGED <<now, taskVars, cacheVars, gatewayVars, frontVars>>

NextBreaker ==
    \/ TickBreaker
    \/ \E h \in Hosts : CallRecordSuccess(h)
    \/ \E h \in Hosts : CallRecordFailure(h)
    \/ \E h \in Hosts : CallShouldAllowRequest(h)

SpecBreaker == InitBreaker /\ [][NextBreaker]_vars

----------------------------------------------------------------------------
(* Properties of the breaker on its own *)

\* C1: from a closed breaker with failure counter 0, the breaker is still
\* closed after the first and the second record_failure() in a row, open
\* after the third, and open after every further one.
C1_ThreeFailuresOpen ==
    \A h \in Hosts :
        /\ streak \in {1, 2} => circuit_breakers[h].status = "closed"
        /\ streak >= 3 => circuit_breakers[h].status = "open"

C1_Witness ==
    streak = 4 /\ circuit_breakers["u"].status = "open"

\* C2: on an open breaker with last failure t0 and window w,
\* should_allow_request() at a time t < t0 + w returns false and changes no
\* field; at t >= t0 + w it returns true, sets half-open and adds exactly
\* one to retry_attempt.
C2_OpenAdmit ==
    [][\A h \in Hosts :
          (CallShouldAllowRequest(h) /\ circuit_breakers[h].status = "open")
          => LET cb == circuit_breakers[h] IN
             IF now < cb.last_failure + cb.recovery_time
             THEN allowed' = FALSE /\ circuit_breakers'[h] = cb
             ELSE /\ allowed' = TRUE
                  /\ circuit_breakers'[h] =
                        [cb EXCEPT !.status = "half-open",
                                   !.retry_attempt = cb.retry_attempt + 1]
      ]_vars

C2_Witness ==
    LET cb == circuit_breakers["u"] IN
    /\ cb.status = "half-open"
    /\ allowed
    /\ cb.retry_attempt = 2
    /\ now = cb.last_failure + cb.recovery_time

C22_ProbeBackoff ==
    /\ [][\A h \in Hosts :
            (CallRecordFailure(h) /\ circuit_breakers[h].status = "half-open")
            => LET cb == circuit_breakers[h] IN
               /\ circuit_breakers'[h].status = "open"
               /\ circuit_breakers'[h].last_failure = now
               /\ circuit_breakers'[h].recovery_time =
                     Min(cb.reset_timeout * (2 ^ cb.retry_attempt), 300)
               /\ circuit_breakers'[h].recovery_time =
                     Min(cb.reset_timeout * (2 ^ probes'), 300)
        ]_vars
    /\ [](\A h \in Hosts :
            (/\ circuit_breakers[h].status = "open"
             /\ circuit_breakers[h].retry_attempt = 0)
            => circuit_breakers[h].recovery_time
                  = circuit_breakers[h].reset_timeout)

\* The third probe in a row has failed: the window is 30 * 2^3 = 240.
C22_Witness ==
    LET cb == circuit_breakers["u"] IN
    /\ cb.status = "open"
    /\ probes = 3
    /\ cb.last_failure = now
    /\ cb.recovery_time = 240

====
